---- MODULE Spec2Model ----
(***************************************************************************)
(* Notes client of all-in-apps: the hand-written protobuf codec            *)
(* (ui/src/lib/protobuf/notes.ts), the query-cache reconciler              *)
(* (lib/api/notes.ts: sortNotes, upsertNote, applyDelta, removeNote,       *)
(* applyNoteEventToCache and the three mutations) and the editor page      *)
(* (routes/+page.svelte).                                                  *)
(*                                                                         *)
(* Representation.  A text is the sequence of its UTF-16 code units.  An   *)
(* optional field is the empty sequence when unset and a one-element       *)
(* sequence holding the value when set.  A bigint is the little-endian     *)
(* sequence of its base-128 digits without leading zero digits, so that    *)
(* 64-bit values are exact.  A JavaScript number is a record with its      *)
(* class (cls) and, for a non-negative integer, its magnitude (mag).       *)
(***************************************************************************)
EXTENDS Integers, Sequences, FiniteSets, TLC

(***************************************************************************)
(* Bounds of the model.                                                    *)
(***************************************************************************)
\* code units of a text handed to the codec
MaxTextLen == 2
\* requests issued to the service, by this page and by the other clients
MaxOps == 2
\* requests of this page that are in flight at the same time
MaxInFlight == 1
\* entries of a collection handed to a reconciler function on its own
MaxNotes == 2
\* fields in a payload handed to a decoder
MaxFields == 2
\* events of the socket, and calls of the close function, of a subscription
MaxSocketEvents == 4

VARIABLES
    ctype,     \* codec: the type of the message
    cmsg,      \* codec: the message handed to the encoder
    wire,      \* codec: result of the encoder (ok, bytes)
    decoded,   \* codec: result of the decoder (ok, value)
    cstep      \* codec: "start", "encoded" or "decoded"

codecVars == <<ctype, cmsg, wire, decoded, cstep>>

VARIABLES
    notes,           \* page: notesQuery.data ?? []
    selectedNoteId,  \* page: optional id
    draftTitle,      \* page
    draftBody,       \* page
    listReq,         \* the notes query: stage and, once served, the response
    createReq,       \* the create mutation
    updateReq,       \* the update mutation
    deleteReq,       \* the delete mutation
    srv,             \* service: id -> optional stored note
    nextId,          \* service: next id of the BIGSERIAL column
    now,             \* service: clock in ms
    ops,             \* number of requests issued to the service so far
    wsQueue,         \* frames of /api/notes/events not yet handled
    removed,         \* history: ids removed from the cache so far
    saved,           \* history: last title-only update response upserted
    lastEvent,       \* history: the event handled by the last step, if any
    localErrorMessage,  \* page: optional message
    failedSave       \* history: an update failed, and the user did nothing since

pageVars == <<notes, selectedNoteId, draftTitle, draftBody>>
reqVars == <<listReq, createReq, updateReq, deleteReq>>
srvVars == <<srv, nextId, now>>
histVars == <<removed, saved, lastEvent, failedSave>>
sysVars ==
    <<pageVars, localErrorMessage, reqVars, srvVars, ops, wsQueue, histVars>>

VARIABLES
    fnOp,      \* reconciler function applied on its own: its name
    fnNotes,   \* the collection it is applied to
    fnArg,     \* its second argument
    fnResult,  \* what it returns
    fnAgain,   \* what it returns when applied to its own result
    fnStep     \* "start", "applied" or "repeated"

fnVars == <<fnOp, fnNotes, fnArg, fnResult, fnAgain, fnStep>>

VARIABLES
    ordNotes,  \* arrival order: the collection the operations start from
    ordOps,    \* the names of the reconciler functions, in a first order
    ordArgs,   \* their second arguments
    ordPerm,   \* the order of arrival, a permutation of the first order
    ordRef,    \* the collection after ordPos operations in the first order
    ordCur,    \* the collection after ordPos operations in the arrival order
    ordPos     \* number of operations applied

ordVars == <<ordNotes, ordOps, ordArgs, ordPerm, ordRef, ordCur, ordPos>>

VARIABLES
    wtype,    \* received bytes: the type of the decoder
    wfields,  \* the fields the bytes are made of, one after the other
    wresult,  \* result of the decoder (ok, value)
    wstep     \* "idle", "start", "decoded"

wireVars == <<wtype, wfields, wresult, wstep>>

VARIABLES
    reqIn,    \* transport: the operation and the HTTP response it meets
    reqOut,   \* how the promise of the operation settles
    reqStep   \* "idle", "start", "settled"

requestVars == <<reqIn, reqOut, reqStep>>

VARIABLES
    sockets,      \* subscription: sockets created by the call
    readyState,   \* of the socket: "NONE" before the call, then as WebSocket
    called,        \* how often onEvent, onError, onOpen, onClose were called
    frame,        \* the last frame handed to socket.onmessage
    handled,      \* the last event handed to onEvent
    closeCalls,   \* calls of the function that subscribeNoteEvents returned
    socketEvents, \* events of the socket and calls of the caller so far
    decoding,     \* Blob frames whose arrayBuffer() has not settled yet
    arrivals,     \* frames handed to socket.onmessage so far
    order,        \* history: arrival numbers of the frames handed to onEvent
    realtimeState,  \* page: 'connecting', 'connected' or 'disconnected'
    socketFailed, \* history: socket.onerror has been called
    threw,        \* history: the last call of onEvent threw
    uncaught      \* rejections of the frame callback that nothing handles

chanVars ==
    <<sockets, readyState, called, frame, handled, closeCalls, socketEvents,
      decoding, arrivals, order, realtimeState, socketFailed, threw, uncaught>>
vars ==
    <<sysVars, codecVars, fnVars, ordVars, wireVars, requestVars, chanVars>>

(***************************************************************************)
(* Optional values and results of operations that can throw.               *)
(***************************************************************************)
Undefined == <<>>
Some(v) == <<v>>
IsDefined(o) == o # <<>>
ValueOf(o) == o[1]

Ok(v) == [ok |-> TRUE, value |-> v]
Err(m) == [ok |-> FALSE, error |-> m]

\* the rest of a function after a call that can throw: the error of r
\* propagates, otherwise the function goes on with r
AndThen(r, Continue(_)) == IF ~r.ok THEN r ELSE Continue(r)

(***************************************************************************)
(* bigint arithmetic on base-128 digit sequences.                          *)
(***************************************************************************)
RECURSIVE BigOfNat(_)
BigOfNat(n) == IF n = 0 THEN <<>> ELSE <<n % 128>> \o BigOfNat(n \div 128)

RECURSIVE BigNorm(_)
BigNorm(d) ==
    IF d # <<>> /\ d[Len(d)] = 0 THEN BigNorm(SubSeq(d, 1, Len(d) - 1)) ELSE d

\* a > b for normalised digit sequences
RECURSIVE BigGreater(_, _)
BigGreater(a, b) ==
    IF Len(a) # Len(b) THEN Len(a) > Len(b)
    ELSE IF a = <<>> THEN FALSE
    ELSE IF a[Len(a)] # b[Len(b)] THEN a[Len(a)] > b[Len(b)]
    ELSE BigGreater(SubSeq(a, 1, Len(a) - 1), SubSeq(b, 1, Len(b) - 1))

\* value of a bigint below 2^28 as a TLC integer
RECURSIVE NatOfBig(_)
NatOfBig(d) == IF d = <<>> THEN 0 ELSE d[1] + 128 * NatOfBig(Tail(d))

\* Number.MAX_SAFE_INTEGER = 2^53 - 1 = seven digits 127 and a top digit 15
MAX_SAFE_INTEGER == <<127, 127, 127, 127, 127, 127, 127, 15>>

Num(n) == [cls |-> "int", mag |-> BigOfNat(n)]
NumBig(d) == [cls |-> "int", mag |-> d]

(***************************************************************************)
(* TextEncoder / TextDecoder (UTF-8, non-fatal, ignoreBOM = false).        *)
(***************************************************************************)
IsHighSurrogate(c) == c >= 55296 /\ c <= 56319
IsLowSurrogate(c) == c >= 56320 /\ c <= 57343

Utf8Bytes(cp) ==
    IF cp < 128 THEN <<cp>>
    ELSE IF cp < 2048 THEN <<192 + (cp \div 64), 128 + (cp % 64)>>
    ELSE IF cp < 65536 THEN
        <<224 + (cp \div 4096), 128 + ((cp \div 64) % 64), 128 + (cp % 64)>>
    ELSE <<240 + (cp \div 262144), 128 + ((cp \div 4096) % 64),
           128 + ((cp \div 64) % 64), 128 + (cp % 64)>>

\* textEncoder.encode(value): unpaired surrogates become U+FFFD
RECURSIVE TextEncode(_)
TextEncode(s) ==
    IF s = <<>> THEN <<>>
    ELSE IF IsHighSurrogate(s[1]) /\ Len(s) >= 2 /\ IsLowSurrogate(s[2]) THEN
        Utf8Bytes(65536 + (s[1] - 55296) * 1024 + (s[2] - 56320))
            \o TextEncode(SubSeq(s, 3, Len(s)))
    ELSE IF IsHighSurrogate(s[1]) \/ IsLowSurrogate(s[1]) THEN
        <<239, 191, 189>> \o TextEncode(Tail(s))
    ELSE Utf8Bytes(s[1]) \o TextEncode(Tail(s))

CodeUnits(cp) ==
    IF cp < 65536 THEN <<cp>>
    ELSE <<55296 + ((cp - 65536) \div 1024), 56320 + ((cp - 65536) % 1024)>>

\* the WHATWG UTF-8 decoder from byte i on; cp, seen, needed, lower, upper are
\* its code point, bytes seen, bytes needed and lower/upper boundary
RECURSIVE Utf8Decode(_, _, _, _, _, _, _)
Utf8Decode(b, i, cp, seen, needed, lower, upper) ==
    IF i > Len(b) THEN (IF needed # 0 THEN <<65533>> ELSE <<>>)
    ELSE LET x == b[i] IN
        IF needed = 0 THEN
            IF x <= 127 THEN <<x>> \o Utf8Decode(b, i + 1, 0, 0, 0, 128, 191)
            ELSE IF x >= 194 /\ x <= 223 THEN
                Utf8Decode(b, i + 1, x % 32, 0, 1, 128, 191)
            ELSE IF x >= 224 /\ x <= 239 THEN
                Utf8Decode(b, i + 1, x % 16, 0, 2,
                           IF x = 224 THEN 160 ELSE 128,
                           IF x = 237 THEN 159 ELSE 191)
            ELSE IF x >= 240 /\ x <= 244 THEN
                Utf8Decode(b, i + 1, x % 8, 0, 3,
                           IF x = 240 THEN 144 ELSE 128,
                           IF x = 244 THEN 143 ELSE 191)
            ELSE <<65533>> \o Utf8Decode(b, i + 1, 0, 0, 0, 128, 191)
        ELSE IF x < lower \/ x > upper THEN
            <<65533>> \o Utf8Decode(b, i, 0, 0, 0, 128, 191)
        ELSE IF seen + 1 # needed THEN
            Utf8Decode(b, i + 1, cp * 64 + (x % 64), seen + 1, needed, 128, 191)
        ELSE CodeUnits(cp * 64 + (x % 64))
                \o Utf8Decode(b, i + 1, 0, 0, 0, 128, 191)

\* textDecoder.decode(bytes): a leading byte order mark is dropped
TextDecode(b) ==
    IF Len(b) >= 3 /\ b[1] = 239 /\ b[2] = 187 /\ b[3] = 191
    THEN Utf8Decode(b, 4, 0, 0, 0, 128, 191)
    ELSE Utf8Decode(b, 1, 0, 0, 0, 128, 191)

(***************************************************************************)
(* Writer.  Each write returns the bytes it pushes, or the error thrown.   *)
(***************************************************************************)
WIRE_VARINT == 0
WIRE_LENGTH_DELIMITED == 2

\* the bytes of two consecutive writes; the first error wins
Then(r1, r2) ==
    IF ~r1.ok THEN r1 ELSE IF ~r2.ok THEN r2 ELSE Ok(r1.value \o r2.value)

writeVarint(value) ==
    IF value = <<>> THEN <<0>>
    ELSE [i \in 1..Len(value) |->
            IF i < Len(value) THEN value[i] + 128 ELSE value[i]]

writeTag(fieldNumber, wireType) ==
    writeVarint(BigOfNat(fieldNumber * 8 + wireType))

\* a conversion without the Number.isSafeInteger test on integers
numberToVarintUnsafe(value) ==
    IF value.cls \in {"nan", "inf", "neg"} THEN
        Err("protobuf int64 must be a finite non-negative number")
    ELSE IF value.cls = "frac" THEN
        Err("protobuf int64 must be a safe integer")
    ELSE Ok(value.mag)

numberToVarint(value) ==
    IF value.cls \in {"nan", "inf", "neg"} THEN
        Err("protobuf int64 must be a finite non-negative number")
    ELSE IF value.cls = "frac" \/ BigGreater(value.mag, MAX_SAFE_INTEGER) THEN
        Err("protobuf int64 must be a safe integer")
    ELSE Ok(value.mag)

writeInt64(fieldNumber, value) ==
    AndThen(numberToVarint(value), LAMBDA v :
        Ok(writeTag(fieldNumber, WIRE_VARINT) \o writeVarint(v.value)))

writeString(fieldNumber, value) ==
    LET encoded == TextEncode(value) IN
    Ok(writeTag(fieldNumber, WIRE_LENGTH_DELIMITED)
        \o writeVarint(BigOfNat(Len(encoded))) \o encoded)

\* payload is the result of the nested encoder, whose error propagates
writeMessage(fieldNumber, payload) ==
    IF ~payload.ok THEN payload
    ELSE Ok(writeTag(fieldNumber, WIRE_LENGTH_DELIMITED)
            \o writeVarint(BigOfNat(Len(payload.value))) \o payload.value)

(***************************************************************************)
(* Reader.  A read takes the payload and the offset (number of bytes       *)
(* consumed) and returns the value with the new offset, or the error.      *)
(***************************************************************************)
Read(v, offset) == [ok |-> TRUE, value |-> v, offset |-> offset]

eof(payload, offset) == offset >= Len(payload)

RECURSIVE readVarintFrom(_, _, _, _)
readVarintFrom(payload, offset, shift, value) ==
    IF offset >= Len(payload) THEN Err("unexpected end of protobuf payload")
    ELSE IF payload[offset + 1] < 128 THEN
        Read(BigNorm(value \o <<payload[offset + 1]>>), offset + 1)
    ELSE IF shift + 7 > 63 THEN Err("protobuf varint is too large")
    ELSE readVarintFrom(payload, offset + 1, shift + 7,
                        value \o <<payload[offset + 1] % 128>>)

readVarint(payload, offset) == readVarintFrom(payload, offset, 0, <<>>)

\* digit i of raw, 0 beyond its length
Digit(raw, i) == IF i <= Len(raw) THEN raw[i] ELSE 0

\* Number(raw) >>> 3 and Number(raw) & 0b111, exact for raw < 2^53
Low32Div8(raw) ==
    (Digit(raw, 1) \div 8) + Digit(raw, 2) * 16 + Digit(raw, 3) * 2048
        + Digit(raw, 4) * 262144 + (Digit(raw, 5) % 16) * 33554432

readTag(payload, offset) ==
    AndThen(readVarint(payload, offset), LAMBDA raw :
        Read([fieldNumber |-> Low32Div8(raw.value),
              wireType |-> Digit(raw.value, 1) % 8],
             raw.offset))

\* a read without the comparison with Number.MAX_SAFE_INTEGER
readInt64Unchecked(payload, offset) ==
    AndThen(readVarint(payload, offset), LAMBDA r :
        Read(NumBig(r.value), r.offset))

readInt64(payload, offset) ==
    AndThen(readVarint(payload, offset), LAMBDA r :
        IF BigGreater(r.value, MAX_SAFE_INTEGER) THEN
            Err("protobuf int64 exceeds Number.MAX_SAFE_INTEGER")
        ELSE Read(NumBig(r.value), r.offset))

\* a declared length of 2^28 or more always exceeds the payload
readBytes(payload, offset) ==
    AndThen(readVarint(payload, offset), LAMBDA r :
        IF Len(r.value) > 4 \/ r.offset + NatOfBig(r.value) > Len(payload) THEN
            Err("protobuf length-delimited field exceeds payload bounds")
        ELSE Read(SubSeq(payload, r.offset + 1, r.offset + NatOfBig(r.value)),
                  r.offset + NatOfBig(r.value)))

readString(payload, offset) ==
    AndThen(readBytes(payload, offset), LAMBDA r :
        Read(TextDecode(r.value), r.offset))

\* a skip that consumes the length of a length-delimited field and leaves
\* its bytes
skipFieldLengthOnly(payload, offset, wireType) ==
    IF wireType \in {WIRE_VARINT, WIRE_LENGTH_DELIMITED} THEN
        AndThen(readVarint(payload, offset), LAMBDA r : Read(TRUE, r.offset))
    ELSE Err("unsupported protobuf wire type")

\* a skip that passes over a tag of any other wire type
skipFieldLenient(payload, offset, wireType) ==
    IF wireType = WIRE_VARINT THEN
        AndThen(readVarint(payload, offset), LAMBDA r : Read(TRUE, r.offset))
    ELSE IF wireType = WIRE_LENGTH_DELIMITED THEN
        AndThen(readVarint(payload, offset), LAMBDA r :
            IF Len(r.value) > 4
               \/ r.offset + NatOfBig(r.value) > Len(payload)
            THEN Err("cannot skip field beyond payload bounds")
            ELSE Read(TRUE, r.offset + NatOfBig(r.value)))
    ELSE Read(TRUE, offset)

skipField(payload, offset, wireType) ==
    IF wireType = WIRE_VARINT THEN
        AndThen(readVarint(payload, offset), LAMBDA r : Read(TRUE, r.offset))
    ELSE IF wireType = WIRE_LENGTH_DELIMITED THEN
        AndThen(readVarint(payload, offset), LAMBDA r :
            IF Len(r.value) > 4
               \/ r.offset + NatOfBig(r.value) > Len(payload)
            THEN Err("cannot skip field beyond payload bounds")
            ELSE Read(TRUE, r.offset + NatOfBig(r.value)))
    ELSE Err("unsupported protobuf wire type")

(***************************************************************************)
(* Encoders and decoders of the message types.  A decoder is the loop      *)
(* while (!reader.eof()) over the tags, started on the default message.    *)
(***************************************************************************)
encodeNote(message) ==
    Then(writeInt64(1, message.id),
    Then(writeString(2, message.title),
    Then(writeString(3, message.body),
    Then(writeInt64(4, message.created_at_unix_ms),
    Then(writeInt64(5, message.updated_at_unix_ms),
         writeInt64(6, message.version))))))

\* a decoder that rejects a known field whose tag carries the other wire type
RECURSIVE decodeNoteLoopStrict(_, _, _)
decodeNoteLoopStrict(payload, offset, message) ==
    IF eof(payload, offset) THEN Ok(message)
    ELSE AndThen(readTag(payload, offset), LAMBDA tag :
        AndThen(IF tag.value.fieldNumber \in {1, 4, 5, 6}
                THEN (IF tag.value.wireType # WIRE_VARINT
                      THEN Err("unexpected protobuf wire type")
                      ELSE readInt64(payload, tag.offset))
                ELSE IF tag.value.fieldNumber \in {2, 3}
                THEN (IF tag.value.wireType # WIRE_LENGTH_DELIMITED
                      THEN Err("unexpected protobuf wire type")
                      ELSE readString(payload, tag.offset))
                ELSE skipField(payload, tag.offset, tag.value.wireType),
            LAMBDA r :
            decodeNoteLoopStrict(payload, r.offset,
                CASE tag.value.fieldNumber = 1 -> [message EXCEPT !.id = r.value]
                  [] tag.value.fieldNumber = 2 ->
                        [message EXCEPT !.title = r.value]
                  [] tag.value.fieldNumber = 3 ->
                        [message EXCEPT !.body = r.value]
                  [] tag.value.fieldNumber = 4 ->
                        [message EXCEPT !.created_at_unix_ms = r.value]
                  [] tag.value.fieldNumber = 5 ->
                        [message EXCEPT !.updated_at_unix_ms = r.value]
                  [] tag.value.fieldNumber = 6 ->
                        [message EXCEPT !.version = r.value]
                  [] OTHER -> message)))

RECURSIVE decodeNoteLoop(_, _, _)
decodeNoteLoop(payload, offset, message) ==
    IF eof(payload, offset) THEN Ok(message)
    ELSE AndThen(readTag(payload, offset), LAMBDA tag :
        AndThen(IF tag.value.fieldNumber \in {1, 4, 5, 6}
                THEN readInt64(payload, tag.offset)
                ELSE IF tag.value.fieldNumber \in {2, 3}
                THEN readString(payload, tag.offset)
                ELSE skipField(payload, tag.offset, tag.value.wireType),
            LAMBDA r :
            decodeNoteLoop(payload, r.offset,
                CASE tag.value.fieldNumber = 1 -> [message EXCEPT !.id = r.value]
                  [] tag.value.fieldNumber = 2 ->
                        [message EXCEPT !.title = r.value]
                  [] tag.value.fieldNumber = 3 ->
                        [message EXCEPT !.body = r.value]
                  [] tag.value.fieldNumber = 4 ->
                        [message EXCEPT !.created_at_unix_ms = r.value]
                  [] tag.value.fieldNumber = 5 ->
                        [message EXCEPT !.updated_at_unix_ms = r.value]
                  [] tag.value.fieldNumber = 6 ->
                        [message EXCEPT !.version = r.value]
                  [] OTHER -> message)))

decodeNote(bytes) ==
    decodeNoteLoop(bytes, 0,
        [id |-> Num(0), title |-> <<>>, body |-> <<>>,
         created_at_unix_ms |-> Num(0), updated_at_unix_ms |-> Num(0),
         version |-> Num(0)])

encodeCreateNoteRequest(message) ==
    Then(writeString(1, message.title), writeString(2, message.body))

RECURSIVE decodeCreateNoteRequestLoop(_, _, _)
decodeCreateNoteRequestLoop(payload, offset, message) ==
    IF eof(payload, offset) THEN Ok(message)
    ELSE AndThen(readTag(payload, offset), LAMBDA tag :
        AndThen(IF tag.value.fieldNumber \in {1, 2}
                THEN readString(payload, tag.offset)
                ELSE skipField(payload, tag.offset, tag.value.wireType),
            LAMBDA r :
            decodeCreateNoteRequestLoop(payload, r.offset,
                CASE tag.value.fieldNumber = 1 ->
                        [message EXCEPT !.title = r.value]
                  [] tag.value.fieldNumber = 2 ->
                        [message EXCEPT !.body = r.value]
                  [] OTHER -> message)))

decodeCreateNoteRequest(bytes) ==
    decodeCreateNoteRequestLoop(bytes, 0, [title |-> <<>>, body |-> <<>>])

encodeCreateNoteResponse(message) ==
    IF IsDefined(message.note)
    THEN writeMessage(1, encodeNote(ValueOf(message.note)))
    ELSE Ok(<<>>)

RECURSIVE decodeCreateNoteResponseLoop(_, _, _)
decodeCreateNoteResponseLoop(payload, offset, message) ==
    IF eof(payload, offset) THEN Ok(message)
    ELSE AndThen(readTag(payload, offset), LAMBDA tag :
        IF tag.value.fieldNumber = 1 THEN
            AndThen(readBytes(payload, tag.offset), LAMBDA r :
            AndThen(decodeNote(r.value), LAMBDA n :
                decodeCreateNoteResponseLoop(payload, r.offset,
                    [message EXCEPT !.note = Some(n.value)])))
        ELSE AndThen(skipField(payload, tag.offset, tag.value.wireType),
                LAMBDA r :
                decodeCreateNoteResponseLoop(payload, r.offset, message)))

decodeCreateNoteResponse(bytes) ==
    decodeCreateNoteResponseLoop(bytes, 0, [note |-> Undefined])

encodeGetNoteResponse(message) ==
    IF IsDefined(message.note)
    THEN writeMessage(1, encodeNote(ValueOf(message.note)))
    ELSE Ok(<<>>)

RECURSIVE decodeGetNoteResponseLoop(_, _, _)
decodeGetNoteResponseLoop(payload, offset, message) ==
    IF eof(payload, offset) THEN Ok(message)
    ELSE AndThen(readTag(payload, offset), LAMBDA tag :
        IF tag.value.fieldNumber = 1 THEN
            AndThen(readBytes(payload, tag.offset), LAMBDA r :
            AndThen(decodeNote(r.value), LAMBDA n :
                decodeGetNoteResponseLoop(payload, r.offset,
                    [message EXCEPT !.note = Some(n.value)])))
        ELSE AndThen(skipField(payload, tag.offset, tag.value.wireType),
                LAMBDA r :
                decodeGetNoteResponseLoop(payload, r.offset, message)))

decodeGetNoteResponse(bytes) ==
    decodeGetNoteResponseLoop(bytes, 0, [note |-> Undefined])

RECURSIVE encodeNotes(_)
encodeNotes(list) ==
    IF list = <<>> THEN Ok(<<>>)
    ELSE Then(writeMessage(1, encodeNote(Head(list))), encodeNotes(Tail(list)))

encodeListNotesResponse(message) == encodeNotes(message.notes)

RECURSIVE decodeListNotesResponseLoop(_, _, _)
decodeListNotesResponseLoop(payload, offset, message) ==
    IF eof(payload, offset) THEN Ok(message)
    ELSE AndThen(readTag(payload, offset), LAMBDA tag :
        IF tag.value.fieldNumber = 1 THEN
            AndThen(readBytes(payload, tag.offset), LAMBDA r :
            AndThen(decodeNote(r.value), LAMBDA n :
                decodeListNotesResponseLoop(payload, r.offset,
                    [message EXCEPT !.notes = Append(@, n.value)])))
        ELSE AndThen(skipField(payload, tag.offset, tag.value.wireType),
                LAMBDA r :
                decodeListNotesResponseLoop(payload, r.offset, message)))

decodeListNotesResponse(bytes) ==
    decodeListNotesResponseLoop(bytes, 0, [notes |-> <<>>])

\* an encoder that tests the title and the body for truthiness
encodeUpdateNoteRequestTruthy(message) ==
    Then(IF IsDefined(message.title) /\ ValueOf(message.title) # <<>>
         THEN writeString(1, ValueOf(message.title)) ELSE Ok(<<>>),
         IF IsDefined(message.body) /\ ValueOf(message.body) # <<>>
         THEN writeString(2, ValueOf(message.body)) ELSE Ok(<<>>))

encodeUpdateNoteRequest(message) ==
    Then(IF IsDefined(message.title)
         THEN writeString(1, ValueOf(message.title)) ELSE Ok(<<>>),
         IF IsDefined(message.body)
         THEN writeString(2, ValueOf(message.body)) ELSE Ok(<<>>))

RECURSIVE decodeUpdateNoteRequestLoop(_, _, _)
decodeUpdateNoteRequestLoop(payload, offset, message) ==
    IF eof(payload, offset) THEN Ok(message)
    ELSE AndThen(readTag(payload, offset), LAMBDA tag :
        AndThen(IF tag.value.fieldNumber \in {1, 2}
                THEN readString(payload, tag.offset)
                ELSE skipField(payload, tag.offset, tag.value.wireType),
            LAMBDA r :
            decodeUpdateNoteRequestLoop(payload, r.offset,
                CASE tag.value.fieldNumber = 1 ->
                        [message EXCEPT !.title = Some(r.value)]
                  [] tag.value.fieldNumber = 2 ->
                        [message EXCEPT !.body = Some(r.value)]
                  [] OTHER -> message)))

decodeUpdateNoteRequest(bytes) ==
    decodeUpdateNoteRequestLoop(bytes, 0,
        [title |-> Undefined, body |-> Undefined])

encodeUpdateNoteResponse(message) ==
    IF IsDefined(message.note)
    THEN writeMessage(1, encodeNote(ValueOf(message.note)))
    ELSE Ok(<<>>)

RECURSIVE decodeUpdateNoteResponseLoop(_, _, _)
decodeUpdateNoteResponseLoop(payload, offset, message) ==
    IF eof(payload, offset) THEN Ok(message)
    ELSE AndThen(readTag(payload, offset), LAMBDA tag :
        IF tag.value.fieldNumber = 1 THEN
            AndThen(readBytes(payload, tag.offset), LAMBDA r :
            AndThen(decodeNote(r.value), LAMBDA n :
                decodeUpdateNoteResponseLoop(payload, r.offset,
                    [message EXCEPT !.note = Some(n.value)])))
        ELSE AndThen(skipField(payload, tag.offset, tag.value.wireType),
                LAMBDA r :
                decodeUpdateNoteResponseLoop(payload, r.offset, message)))

decodeUpdateNoteResponse(bytes) ==
    decodeUpdateNoteResponseLoop(bytes, 0, [note |-> Undefined])

encodeDeleteNoteResponse(message) == writeInt64(1, message.id)

RECURSIVE decodeDeleteNoteResponseLoop(_, _, _)
decodeDeleteNoteResponseLoop(payload, offset, message) ==
    IF eof(payload, offset) THEN Ok(message)
    ELSE AndThen(readTag(payload, offset), LAMBDA tag :
        IF tag.value.fieldNumber = 1 THEN
            AndThen(readInt64(payload, tag.offset), LAMBDA r :
                decodeDeleteNoteResponseLoop(payload, r.offset,
                    [message EXCEPT !.id = r.value]))
        ELSE AndThen(skipField(payload, tag.offset, tag.value.wireType),
                LAMBDA r :
                decodeDeleteNoteResponseLoop(payload, r.offset, message)))

decodeDeleteNoteResponse(bytes) ==
    decodeDeleteNoteResponseLoop(bytes, 0, [id |-> Num(0)])

encodeNoteDelta(message) ==
    Then(writeInt64(1, message.id),
    Then(IF IsDefined(message.title)
         THEN writeString(2, ValueOf(message.title)) ELSE Ok(<<>>),
    Then(IF IsDefined(message.body)
         THEN writeString(3, ValueOf(message.body)) ELSE Ok(<<>>),
    Then(writeInt64(4, message.updated_at_unix_ms),
         writeInt64(5, message.version)))))

RECURSIVE decodeNoteDeltaLoop(_, _, _)
decodeNoteDeltaLoop(payload, offset, message) ==
    IF eof(payload, offset) THEN Ok(message)
    ELSE AndThen(readTag(payload, offset), LAMBDA tag :
        AndThen(IF tag.value.fieldNumber \in {1, 4, 5}
                THEN readInt64(payload, tag.offset)
                ELSE IF tag.value.fieldNumber \in {2, 3}
                THEN readString(payload, tag.offset)
                ELSE skipField(payload, tag.offset, tag.value.wireType),
            LAMBDA r :
            decodeNoteDeltaLoop(payload, r.offset,
                CASE tag.value.fieldNumber = 1 -> [message EXCEPT !.id = r.value]
                  [] tag.value.fieldNumber = 2 ->
                        [message EXCEPT !.title = Some(r.value)]
                  [] tag.value.fieldNumber = 3 ->
                        [message EXCEPT !.body = Some(r.value)]
                  [] tag.value.fieldNumber = 4 ->
                        [message EXCEPT !.updated_at_unix_ms = r.value]
                  [] tag.value.fieldNumber = 5 ->
                        [message EXCEPT !.version = r.value]
                  [] OTHER -> message)))

\* a decoder that starts from the empty title and body
decodeNoteDeltaEmptyTexts(bytes) ==
    decodeNoteDeltaLoop(bytes, 0,
        [id |-> Num(0), title |-> Some(<<>>), body |-> Some(<<>>),
         updated_at_unix_ms |-> Num(0), version |-> Num(0)])

decodeNoteDelta(bytes) ==
    decodeNoteDeltaLoop(bytes, 0,
        [id |-> Num(0), title |-> Undefined, body |-> Undefined,
         updated_at_unix_ms |-> Num(0), version |-> Num(0)])

encodeNoteDeleted(message) == writeInt64(1, message.id)

RECURSIVE decodeNoteDeletedLoop(_, _, _)
decodeNoteDeletedLoop(payload, offset, message) ==
    IF eof(payload, offset) THEN Ok(message)
    ELSE AndThen(readTag(payload, offset), LAMBDA tag :
        IF tag.value.fieldNumber = 1 THEN
            AndThen(readInt64(payload, tag.offset), LAMBDA r :
                decodeNoteDeletedLoop(payload, r.offset,
                    [message EXCEPT !.id = r.value]))
        ELSE AndThen(skipField(payload, tag.offset, tag.value.wireType),
                LAMBDA r :
                decodeNoteDeletedLoop(payload, r.offset, message)))

decodeNoteDeleted(bytes) == decodeNoteDeletedLoop(bytes, 0, [id |-> Num(0)])

\* message.event is Undefined or Some of a record with kind and its member
EventKind(message) ==
    IF IsDefined(message.event) THEN ValueOf(message.event).kind ELSE "none"

encodeNoteEvent(message) ==
    Then(IF EventKind(message) = "created"
         THEN writeMessage(1, encodeNote(ValueOf(message.event).note))
         ELSE Ok(<<>>),
    Then(IF EventKind(message) = "updated"
         THEN writeMessage(2, encodeNoteDelta(ValueOf(message.event).delta))
         ELSE Ok(<<>>),
         IF EventKind(message) = "deleted"
         THEN writeMessage(3, encodeNoteDeleted(ValueOf(message.event).deleted))
         ELSE Ok(<<>>)))

\* a decoder that keeps the first member field
RECURSIVE decodeNoteEventLoopFirst(_, _, _)
decodeNoteEventLoopFirst(payload, offset, message) ==
    IF eof(payload, offset) THEN Ok(message)
    ELSE AndThen(readTag(payload, offset), LAMBDA tag :
        IF tag.value.fieldNumber \in {1, 2, 3} THEN
            AndThen(readBytes(payload, tag.offset), LAMBDA r :
            AndThen(CASE tag.value.fieldNumber = 1 -> decodeNote(r.value)
                      [] tag.value.fieldNumber = 2 -> decodeNoteDelta(r.value)
                      [] tag.value.fieldNumber = 3 -> decodeNoteDeleted(r.value),
                LAMBDA m :
                decodeNoteEventLoopFirst(payload, r.offset,
                    CASE IsDefined(message.event) -> message
                      [] tag.value.fieldNumber = 1 ->
                            [event |-> Some([kind |-> "created",
                                             note |-> m.value])]
                      [] tag.value.fieldNumber = 2 ->
                            [event |-> Some([kind |-> "updated",
                                             delta |-> m.value])]
                      [] tag.value.fieldNumber = 3 ->
                            [event |-> Some([kind |-> "deleted",
                                             deleted |-> m.value])])))
        ELSE AndThen(skipField(payload, tag.offset, tag.value.wireType),
                LAMBDA r :
                decodeNoteEventLoopFirst(payload, r.offset, message)))

RECURSIVE decodeNoteEventLoop(_, _, _)
decodeNoteEventLoop(payload, offset, message) ==
    IF eof(payload, offset) THEN Ok(message)
    ELSE AndThen(readTag(payload, offset), LAMBDA tag :
        IF tag.value.fieldNumber \in {1, 2, 3} THEN
            AndThen(readBytes(payload, tag.offset), LAMBDA r :
            AndThen(CASE tag.value.fieldNumber = 1 -> decodeNote(r.value)
                      [] tag.value.fieldNumber = 2 -> decodeNoteDelta(r.value)
                      [] tag.value.fieldNumber = 3 -> decodeNoteDeleted(r.value),
                LAMBDA m :
                decodeNoteEventLoop(payload, r.offset,
                    CASE tag.value.fieldNumber = 1 ->
                            [event |-> Some([kind |-> "created",
                                             note |-> m.value])]
                      [] tag.value.fieldNumber = 2 ->
                            [event |-> Some([kind |-> "updated",
                                             delta |-> m.value])]
                      [] tag.value.fieldNumber = 3 ->
                            [event |-> Some([kind |-> "deleted",
                                             deleted |-> m.value])])))
        ELSE AndThen(skipField(payload, tag.offset, tag.value.wireType),
                LAMBDA r :
                decodeNoteEventLoop(payload, r.offset, message)))

decodeNoteEvent(bytes) == decodeNoteEventLoop(bytes, 0, [event |-> Undefined])

(***************************************************************************)
(* Codec specification: a message is drawn, encoded, and the bytes are     *)
(* decoded with the decoder of the same type.                              *)
(***************************************************************************)
\* 'a', e-acute (two bytes), U+FEFF (three bytes), and the two halves of the
\* surrogate pair of U+1F600 (four bytes when paired)
CodecChars == {97, 233, 65279, 55357, 56832}

RECURSIVE TextsUpTo(_)
TextsUpTo(n) ==
    IF n = 0 THEN {<<>>}
    ELSE TextsUpTo(n - 1)
         \cup {Append(t, c) : t \in {u \in TextsUpTo(n - 1) : Len(u) = n - 1},
                              c \in CodecChars}

CodecTexts == TextsUpTo(MaxTextLen)
ShortTexts == {<<>>, <<97>>, <<65279>>}
Opt(S) == {Undefined} \cup {Some(v) : v \in S}

\* 0, 1, 127, 128 (two varint bytes), 300 and 2^53 - 1
CodecInts == {Num(0), Num(1), Num(127), Num(128), Num(300),
              NumBig(MAX_SAFE_INTEGER)}
EdgeInts == {Num(0), NumBig(MAX_SAFE_INTEGER)}

CodecNotes ==
    [id : CodecInts, title : CodecTexts, body : ShortTexts,
     created_at_unix_ms : EdgeInts, updated_at_unix_ms : EdgeInts,
     version : EdgeInts]

SmallNotes ==
    [id : EdgeInts, title : ShortTexts, body : {<<>>, <<97>>},
     created_at_unix_ms : {Num(1)}, updated_at_unix_ms : {Num(128)},
     version : {Num(1)}]

CodecDeltas ==
    [id : CodecInts, title : Opt(CodecTexts), body : Opt(ShortTexts),
     updated_at_unix_ms : EdgeInts, version : EdgeInts]

SmallDeltas ==
    [id : {Num(1)}, title : Opt(ShortTexts), body : Opt({<<>>, <<97>>}),
     updated_at_unix_ms : {Num(128)}, version : EdgeInts]

\* the messages of a type
CodecMessages(type) ==
    CASE type = "Note" -> CodecNotes
      [] type = "CreateNoteRequest" -> [title : CodecTexts, body : ShortTexts]
      [] type \in {"CreateNoteResponse", "GetNoteResponse",
                   "UpdateNoteResponse"} -> [note : Opt(SmallNotes)]
      [] type = "ListNotesResponse" ->
            [notes : {<<>>} \cup {<<n>> : n \in SmallNotes}
                     \cup {<<n, m>> : n \in SmallNotes, m \in SmallNotes}]
      [] type = "UpdateNoteRequest" ->
            [title : Opt(CodecTexts), body : Opt(ShortTexts)]
      [] type \in {"DeleteNoteResponse", "NoteDeleted"} -> [id : CodecInts]
      [] type = "NoteDelta" -> CodecDeltas
      [] type = "NoteEventEmpty" -> {[event |-> Undefined]}
      [] type = "NoteEventCreated" ->
            {[event |-> Some([kind |-> "created", note |-> n])] :
                n \in SmallNotes}
      [] type = "NoteEventUpdated" ->
            {[event |-> Some([kind |-> "updated", delta |-> d])] :
                d \in SmallDeltas}
      [] type = "NoteEventDeleted" ->
            {[event |-> Some([kind |-> "deleted", deleted |-> [id |-> i]])] :
                i \in CodecInts}

\* numbers that are not integers of 0..2^53-1: -1, NaN, Infinity, 1.5, 2^53
BadInts ==
    {[cls |-> "neg", mag |-> BigOfNat(1)], [cls |-> "nan", mag |-> <<>>],
     [cls |-> "inf", mag |-> <<>>], [cls |-> "frac", mag |-> BigOfNat(1)],
     NumBig(<<0, 0, 0, 0, 0, 0, 0, 16>>)}

IsSafeInt(value) ==
    value.cls = "int" /\ ~BigGreater(value.mag, MAX_SAFE_INTEGER)

GoodNote ==
    [id |-> Num(1), title |-> <<97>>, body |-> <<>>,
     created_at_unix_ms |-> Num(1), updated_at_unix_ms |-> Num(128),
     version |-> Num(1)]

GoodDelta ==
    [id |-> Num(1), title |-> Some(<<97>>), body |-> Undefined,
     updated_at_unix_ms |-> Num(128), version |-> Num(1)]

\* a note, a delta with one integer field out of range
BadNotes ==
    {[GoodNote EXCEPT !.id = b] : b \in BadInts}
    \cup {[GoodNote EXCEPT !.created_at_unix_ms = b] : b \in BadInts}
    \cup {[GoodNote EXCEPT !.updated_at_unix_ms = b] : b \in BadInts}
    \cup {[GoodNote EXCEPT !.version = b] : b \in BadInts}

BadDeltas ==
    {[GoodDelta EXCEPT !.id = b] : b \in BadInts}
    \cup {[GoodDelta EXCEPT !.updated_at_unix_ms = b] : b \in BadInts}
    \cup {[GoodDelta EXCEPT !.version = b] : b \in BadInts}

\* the messages of a type that hold an integer out of range
RangeMessages(type) ==
    CASE type = "Note" -> BadNotes
      [] type \in {"CreateNoteResponse", "GetNoteResponse",
                   "UpdateNoteResponse"} -> {[note |-> Some(n)] : n \in BadNotes}
      [] type = "ListNotesResponse" ->
            {[notes |-> <<n>>] : n \in BadNotes}
            \cup {[notes |-> <<GoodNote, n>>] : n \in BadNotes}
      [] type \in {"DeleteNoteResponse", "NoteDeleted"} ->
            {[id |-> b] : b \in BadInts}
      [] type = "NoteDelta" -> BadDeltas
      [] type = "NoteEventCreated" ->
            {[event |-> Some([kind |-> "created", note |-> n])] :
                n \in BadNotes}
      [] type = "NoteEventUpdated" ->
            {[event |-> Some([kind |-> "updated", delta |-> d])] :
                d \in BadDeltas}
      [] type = "NoteEventDeleted" ->
            {[event |-> Some([kind |-> "deleted", deleted |-> [id |-> b]])] :
                b \in BadInts}
      [] OTHER -> {}

NoteInts(n) ==
    {n.id, n.created_at_unix_ms, n.updated_at_unix_ms, n.version}

DeltaInts(d) == {d.id, d.updated_at_unix_ms, d.version}

\* the integer fields of a message, those of its nested messages included
MessageInts(type, m) ==
    CASE type = "Note" -> NoteInts(m)
      [] type \in {"CreateNoteResponse", "GetNoteResponse",
                   "UpdateNoteResponse"} ->
            IF IsDefined(m.note) THEN NoteInts(ValueOf(m.note)) ELSE {}
      [] type = "ListNotesResponse" ->
            UNION {NoteInts(m.notes[i]) : i \in 1..Len(m.notes)}
      [] type \in {"DeleteNoteResponse", "NoteDeleted"} -> {m.id}
      [] type = "NoteDelta" -> DeltaInts(m)
      [] type = "NoteEventCreated" -> NoteInts(ValueOf(m.event).note)
      [] type = "NoteEventUpdated" -> DeltaInts(ValueOf(m.event).delta)
      [] type = "NoteEventDeleted" -> {ValueOf(m.event).deleted.id}
      [] OTHER -> {}

CodecTypes ==
    {"Note", "CreateNoteRequest", "CreateNoteResponse", "GetNoteResponse",
     "ListNotesResponse", "UpdateNoteRequest", "UpdateNoteResponse",
     "DeleteNoteResponse", "NoteDelta", "NoteDeleted", "NoteEventEmpty",
     "NoteEventCreated", "NoteEventUpdated", "NoteEventDeleted"}

IsEventType(type) ==
    type \in {"NoteEventEmpty", "NoteEventCreated", "NoteEventUpdated",
              "NoteEventDeleted"}

EncodeMessage(type, m) ==
    CASE type = "Note" -> encodeNote(m)
      [] type = "CreateNoteRequest" -> encodeCreateNoteRequest(m)
      [] type = "CreateNoteResponse" -> encodeCreateNoteResponse(m)
      [] type = "GetNoteResponse" -> encodeGetNoteResponse(m)
      [] type = "ListNotesResponse" -> encodeListNotesResponse(m)
      [] type = "UpdateNoteRequest" -> encodeUpdateNoteRequest(m)
      [] type = "UpdateNoteResponse" -> encodeUpdateNoteResponse(m)
      [] type = "DeleteNoteResponse" -> encodeDeleteNoteResponse(m)
      [] type = "NoteDelta" -> encodeNoteDelta(m)
      [] type = "NoteDeleted" -> encodeNoteDeleted(m)
      [] IsEventType(type) -> encodeNoteEvent(m)

DecodeMessage(type, bytes) ==
    CASE type = "Note" -> decodeNote(bytes)
      [] type = "CreateNoteRequest" -> decodeCreateNoteRequest(bytes)
      [] type = "CreateNoteResponse" -> decodeCreateNoteResponse(bytes)
      [] type = "GetNoteResponse" -> decodeGetNoteResponse(bytes)
      [] type = "ListNotesResponse" -> decodeListNotesResponse(bytes)
      [] type = "UpdateNoteRequest" -> decodeUpdateNoteRequest(bytes)
      [] type = "UpdateNoteResponse" -> decodeUpdateNoteResponse(bytes)
      [] type = "DeleteNoteResponse" -> decodeDeleteNoteResponse(bytes)
      [] type = "NoteDelta" -> decodeNoteDelta(bytes)
      [] type = "NoteDeleted" -> decodeNoteDeleted(bytes)
      [] IsEventType(type) -> decodeNoteEvent(bytes)

CodecIdle ==
    /\ ctype = "none"
    /\ cmsg = <<>>
    /\ wire = Ok(<<>>)
    /\ decoded = Ok(<<>>)
    /\ cstep = "idle"

CodecStart ==
    /\ ctype \in CodecTypes
    /\ cmsg \in CodecMessages(ctype) \cup RangeMessages(ctype)
    /\ wire = Ok(<<>>)
    /\ decoded = Ok(<<>>)
    /\ cstep = "start"

CodecEncode ==
    /\ cstep = "start"
    /\ wire' = EncodeMessage(ctype, cmsg)
    /\ cstep' = "encoded"
    /\ UNCHANGED <<ctype, cmsg, decoded>>

CodecDecode ==
    /\ cstep = "encoded"
    /\ wire.ok
    /\ decoded' = DecodeMessage(ctype, wire.value)
    /\ cstep' = "decoded"
    /\ UNCHANGED <<ctype, cmsg, wire>>

CodecNext == CodecEncode \/ CodecDecode

(***************************************************************************)
(* Decoders applied to bytes that no encoder of this module produced: the  *)
(* payload is a sequence of fields, known ones in any order and number,    *)
(* fields of unknown numbers, and malformed ones.                          *)
(***************************************************************************)
\* names of the integer fields of a message type, by field number
IntFieldsOf(type) ==
    CASE type = "Note" ->
            (1 :> "id") @@ (4 :> "created_at_unix_ms")
            @@ (5 :> "updated_at_unix_ms") @@ (6 :> "version")
      [] type \in {"DeleteNoteResponse", "NoteDeleted"} -> (1 :> "id")
      [] type = "NoteDelta" ->
            (1 :> "id") @@ (4 :> "updated_at_unix_ms") @@ (5 :> "version")
      [] OTHER -> <<>>

\* names of the text fields
TextFieldsOf(type) ==
    CASE type = "Note" -> (2 :> "title") @@ (3 :> "body")
      [] type \in {"CreateNoteRequest", "UpdateNoteRequest"} ->
            (1 :> "title") @@ (2 :> "body")
      [] type = "NoteDelta" -> (2 :> "title") @@ (3 :> "body")
      [] OTHER -> <<>>

\* types of the nested messages
MessageFieldsOf(type) ==
    CASE type \in {"CreateNoteResponse", "GetNoteResponse",
                   "UpdateNoteResponse", "ListNotesResponse"} -> (1 :> "Note")
      [] type = "NoteEvent" ->
            (1 :> "Note") @@ (2 :> "NoteDelta") @@ (3 :> "NoteDeleted")
      [] OTHER -> <<>>

HasOptionalTexts(type) == type \in {"UpdateNoteRequest", "NoteDelta"}

\* a field on the wire: a varint of a known integer field, the text of a known
\* text field, a nested message given by its own fields, the bytes of a field
\* of unknown number ("skip"), or malformed bytes ("fault"); a fault that is
\* one only at the end of the payload has last = TRUE
IntField(field, mag) ==
    [kind |-> "int", field |-> field, mag |-> mag, text |-> <<>>,
     inner |-> <<>>, raw |-> <<>>, last |-> FALSE]

TextField(field, text) ==
    [kind |-> "text", field |-> field, mag |-> <<>>, text |-> text,
     inner |-> <<>>, raw |-> <<>>, last |-> FALSE]

MessageField(field, inner) ==
    [kind |-> "msg", field |-> field, mag |-> <<>>, text |-> <<>>,
     inner |-> inner, raw |-> <<>>, last |-> FALSE]

UnknownField(raw) ==
    [kind |-> "skip", field |-> 0, mag |-> <<>>, text |-> <<>>,
     inner |-> <<>>, raw |-> raw, last |-> FALSE]

FaultField(raw, last) ==
    [kind |-> "fault", field |-> 0, mag |-> <<>>, text |-> <<>>,
     inner |-> <<>>, raw |-> raw, last |-> last]

\* 2^53 and 2^64 - 1
TWO_POW_53 == <<0, 0, 0, 0, 0, 0, 0, 16>>
MAX_UINT64 == <<127, 127, 127, 127, 127, 127, 127, 127, 127, 1>>

\* field 15 as a varint and as bytes that read like a field 1, and field
\* 2^29 - 1 as the varint 2^64 - 1 and as no bytes
UnknownFields ==
    {UnknownField(<<120, 1>>),
     UnknownField(<<122, 2, 8, 5>>),
     UnknownField(<<248, 255, 255, 255, 15>> \o writeVarint(MAX_UINT64)),
     UnknownField(<<250, 255, 255, 255, 15, 0>>)}

\* a varint of eleven bytes
LongVarint == [i \in 1..11 |-> IF i < 11 THEN 255 ELSE 1]

\* faults in a field 15: wire types 5 and 1, a varint of eleven bytes, a
\* varint cut off, a length past the end; and a tag cut off
UnknownFaults ==
    {FaultField(<<125, 120, 0, 120, 0>>, FALSE),
     FaultField(<<121, 120, 0, 120, 0, 120, 0, 120, 0>>, FALSE),
     FaultField(<<120>> \o LongVarint, FALSE),
     FaultField(<<120, 128>>, TRUE),
     FaultField(<<122, 5, 97>>, TRUE),
     FaultField(<<128>>, TRUE)}

\* faults in the known fields of a type
KnownFaults(type) ==
    {FaultField(writeTag(f, WIRE_VARINT) \o <<255, 255>>, TRUE) :
        f \in DOMAIN IntFieldsOf(type)}
    \cup {FaultField(writeTag(f, WIRE_VARINT) \o LongVarint, FALSE) :
        f \in DOMAIN IntFieldsOf(type)}
    \cup {FaultField(writeTag(f, WIRE_LENGTH_DELIMITED) \o <<5, 97>>, TRUE) :
        f \in DOMAIN TextFieldsOf(type) \cup DOMAIN MessageFieldsOf(type)}

WireMags == {<<>>, <<1>>, MAX_SAFE_INTEGER, TWO_POW_53, MAX_UINT64}

\* the payloads of a nested message; each nested type has the integer field 1
InnerFields ==
    {<<>>, <<IntField(1, <<1>>)>>, <<IntField(1, TWO_POW_53)>>,
     <<UnknownField(<<122, 2, 8, 5>>), IntField(1, MAX_SAFE_INTEGER)>>,
     <<FaultField(<<8, 255>>, TRUE)>>,
     <<IntField(1, <<1>>), FaultField(<<125, 120, 0, 120, 0>>, FALSE)>>}

WireFields(type) ==
    {IntField(f, mag) : f \in DOMAIN IntFieldsOf(type), mag \in WireMags}
    \cup {TextField(f, t) : f \in DOMAIN TextFieldsOf(type),
                            t \in {<<>>, <<97>>}}
    \cup {MessageField(f, inner) : f \in DOMAIN MessageFieldsOf(type),
                                   inner \in InnerFields}
    \cup UnknownFields \cup UnknownFaults \cup KnownFaults(type)

RECURSIVE FieldBytes(_)
FieldBytes(fields) ==
    IF fields = <<>> THEN <<>>
    ELSE LET c == Head(fields) IN
         (CASE c.kind = "int" ->
                    writeTag(c.field, WIRE_VARINT) \o writeVarint(c.mag)
            [] c.kind = "text" -> writeString(c.field, c.text).value
            [] c.kind = "msg" ->
                    writeMessage(c.field, Ok(FieldBytes(c.inner))).value
            [] OTHER -> c.raw)
         \o FieldBytes(Tail(fields))

\* a malformed field among the fields or in a nested message
HasFault(fields) ==
    \E i \in 1..Len(fields) :
        \/ fields[i].kind = "fault"
        \/ \E j \in 1..Len(fields[i].inner) : fields[i].inner[j].kind = "fault"

\* an integer above 2^53 - 1 among the fields or in a nested message
HasUnsafeInt(fields) ==
    \E i \in 1..Len(fields) :
        \/ fields[i].kind = "int"
           /\ BigGreater(fields[i].mag, MAX_SAFE_INTEGER)
        \/ \E j \in 1..Len(fields[i].inner) :
                /\ fields[i].inner[j].kind = "int"
                /\ BigGreater(fields[i].inner[j].mag, MAX_SAFE_INTEGER)

IsKnownField(c) == c.kind # "skip"

\* the fields without those of unknown numbers, nested messages included
KnownFieldsOf(fields) ==
    [i \in 1..Len(SelectSeq(fields, IsKnownField)) |->
        [SelectSeq(fields, IsKnownField)[i] EXCEPT
            !.inner = SelectSeq(@, IsKnownField)]]

\* the message each decoder starts from
DefaultMessage(type) ==
    CASE type = "Note" ->
            [id |-> Num(0), title |-> <<>>, body |-> <<>>,
             created_at_unix_ms |-> Num(0), updated_at_unix_ms |-> Num(0),
             version |-> Num(0)]
      [] type = "CreateNoteRequest" -> [title |-> <<>>, body |-> <<>>]
      [] type \in {"CreateNoteResponse", "GetNoteResponse",
                   "UpdateNoteResponse"} -> [note |-> Undefined]
      [] type = "ListNotesResponse" -> [notes |-> <<>>]
      [] type = "UpdateNoteRequest" -> [title |-> Undefined, body |-> Undefined]
      [] type \in {"DeleteNoteResponse", "NoteDeleted"} -> [id |-> Num(0)]
      [] type = "NoteDelta" ->
            [id |-> Num(0), title |-> Undefined, body |-> Undefined,
             updated_at_unix_ms |-> Num(0), version |-> Num(0)]
      [] type = "NoteEvent" -> [event |-> Undefined]

\* no field of that kind and number among the fields
IsAbsent(fields, kind, field) ==
    \A i \in 1..Len(fields) :
        ~(fields[i].kind = kind /\ fields[i].field = field)

WireTypes ==
    {"Note", "CreateNoteRequest", "CreateNoteResponse", "GetNoteResponse",
     "ListNotesResponse", "UpdateNoteRequest", "UpdateNoteResponse",
     "DeleteNoteResponse", "NoteDelta", "NoteDeleted", "NoteEvent"}

DecodeBytes(type, bytes) ==
    IF type = "NoteEvent" THEN decodeNoteEvent(bytes)
    ELSE DecodeMessage(type, bytes)

WireIdle ==
    /\ wtype = "none"
    /\ wfields = <<>>
    /\ wresult = Ok(<<>>)
    /\ wstep = "idle"

WireStart ==
    /\ wtype \in WireTypes
    /\ wfields \in UNION {[1..n -> WireFields(wtype)] : n \in 0..MaxFields}
    /\ \A i \in 1..(Len(wfields) - 1) : ~wfields[i].last
    /\ wresult = Ok(<<>>)
    /\ wstep = "start"

WireDecode ==
    /\ wstep = "start"
    /\ wresult' = DecodeBytes(wtype, FieldBytes(wfields))
    /\ wstep' = "decoded"
    /\ UNCHANGED <<wtype, wfields>>

WireNext == WireDecode

(***************************************************************************)
(* Cache reconciler (lib/api/notes.ts).  A Note of the generated schema is *)
(* a record with id, title, body, createdAtUnixMs, updatedAtUnixMs and     *)
(* version; a NoteDelta has id, optional title and body, updatedAtUnixMs   *)
(* and version.  The collection is a sequence of notes.                    *)
(***************************************************************************)
\* the comparator with its two results exchanged
compareNotesAscending(a, b) ==
    IF a.updatedAtUnixMs # b.updatedAtUnixMs
    THEN (IF a.updatedAtUnixMs < b.updatedAtUnixMs THEN -1 ELSE 1)
    ELSE (IF a.id < b.id THEN -1 ELSE 1)

\* a comparator that leaves notes of one timestamp as they are
compareNotesNoTie(a, b) ==
    IF a.updatedAtUnixMs # b.updatedAtUnixMs
    THEN (IF a.updatedAtUnixMs < b.updatedAtUnixMs THEN 1 ELSE -1)
    ELSE 0

\* the comparator handed to Array.prototype.sort
compareNotes(a, b) ==
    IF a.updatedAtUnixMs # b.updatedAtUnixMs
    THEN (IF a.updatedAtUnixMs < b.updatedAtUnixMs THEN 1 ELSE -1)
    ELSE (IF a.id < b.id THEN 1 ELSE -1)

\* insertion of x into a sorted sequence, before the first element that the
\* comparator puts after x
RECURSIVE InsertSorted(_, _)
InsertSorted(sorted, x) ==
    IF sorted = <<>> THEN <<x>>
    ELSE IF compareNotes(x, Head(sorted)) < 0 THEN <<x>> \o sorted
    ELSE <<Head(sorted)>> \o InsertSorted(Tail(sorted), x)

RECURSIVE SortFrom(_, _)
SortFrom(sorted, items) ==
    IF items = <<>> THEN sorted
    ELSE SortFrom(InsertSorted(sorted, Head(items)), Tail(items))

\* the copy of the items without the sort
sortNotesAsGiven(items) == items

sortNotes(items) == SortFrom(<<>>, items)

\* Array.prototype.findIndex on the id, 1-based; 0 when there is none
RECURSIVE FindIndexFrom(_, _, _)
FindIndexFrom(current, id, i) ==
    IF i > Len(current) THEN 0
    ELSE IF current[i].id = id THEN i
    ELSE FindIndexFrom(current, id, i + 1)

findIndex(current, id) == FindIndexFrom(current, id, 1)

\* an upsert that never looks for the id
upsertNoteAppend(current, note) == sortNotes(Append(current, note))

upsertNote(current, note) ==
    LET index == findIndex(current, note.id) IN
    IF index = 0 THEN sortNotes(Append(current, note))
    ELSE sortNotes([current EXCEPT ![index] = note])

\* a merge with || in the place of ??
applyDeltaFalsy(current, delta) ==
    LET index == findIndex(current, delta.id) IN
    IF index = 0 THEN current
    ELSE LET existing == current[index] IN
         upsertNote(current,
            [existing EXCEPT
                !.title = IF IsDefined(delta.title) /\ ValueOf(delta.title) # <<>>
                          THEN ValueOf(delta.title) ELSE existing.title,
                !.body = IF IsDefined(delta.body) /\ ValueOf(delta.body) # <<>>
                         THEN ValueOf(delta.body) ELSE existing.body,
                !.updatedAtUnixMs = delta.updatedAtUnixMs,
                !.version = delta.version])

\* a merge that inserts what the delta carries when the id is unknown
applyDeltaInsert(current, delta) ==
    LET index == findIndex(current, delta.id)
        existing ==
            IF index = 0
            THEN [id |-> delta.id, title |-> <<>>, body |-> <<>>,
                  createdAtUnixMs |-> 0,
                  updatedAtUnixMs |-> delta.updatedAtUnixMs,
                  version |-> delta.version]
            ELSE current[index]
    IN upsertNote(current,
            [existing EXCEPT
                !.title = IF IsDefined(delta.title)
                          THEN ValueOf(delta.title) ELSE existing.title,
                !.body = IF IsDefined(delta.body)
                         THEN ValueOf(delta.body) ELSE existing.body,
                !.updatedAtUnixMs = delta.updatedAtUnixMs,
                !.version = delta.version])

applyDelta(current, delta) ==
    LET index == findIndex(current, delta.id) IN
    IF index = 0 THEN current
    ELSE LET existing == current[index] IN
         upsertNote(current,
            [existing EXCEPT
                !.title = IF IsDefined(delta.title)
                          THEN ValueOf(delta.title) ELSE existing.title,
                !.body = IF IsDefined(delta.body)
                         THEN ValueOf(delta.body) ELSE existing.body,
                !.updatedAtUnixMs = delta.updatedAtUnixMs,
                !.version = delta.version])

\* a removal by splice(findIndex(...), 1): index -1 takes the last entry
removeNoteSplice(current, noteId) ==
    IF current = <<>> THEN current
    ELSE IF findIndex(current, noteId) = 0
        THEN SubSeq(current, 1, Len(current) - 1)
    ELSE SubSeq(current, 1, findIndex(current, noteId) - 1)
            \o SubSeq(current, findIndex(current, noteId) + 1, Len(current))

removeNote(current, noteId) == SelectSeq(current, LAMBDA note : note.id # noteId)

(***************************************************************************)
(* The reconciler functions applied on their own to a collection that the  *)
(* cache can hold: unique ids, in the order of sortNotes.                  *)
(***************************************************************************)
IsSorted(current) ==
    \A i \in 1..(Len(current) - 1) :
        \/ current[i].updatedAtUnixMs > current[i + 1].updatedAtUnixMs
        \/ /\ current[i].updatedAtUnixMs = current[i + 1].updatedAtUnixMs
           /\ current[i].id > current[i + 1].id

HasUniqueIds(current) ==
    \A i, j \in 1..Len(current) : current[i].id = current[j].id => i = j

CachedNotes ==
    [id : 1..MaxNotes, title : {<<97>>}, body : {<<120>>},
     createdAtUnixMs : {0}, updatedAtUnixMs : 1..2, version : 1..2]

Collections ==
    {c \in UNION {[1..n -> CachedNotes] : n \in 0..MaxNotes} :
        HasUniqueIds(c) /\ IsSorted(c)}

ArgNotes ==
    [id : 1..(MaxNotes + 1), title : {<<97>>, <<98>>}, body : {<<>>},
     createdAtUnixMs : {0}, updatedAtUnixMs : 1..3, version : 1..2]

ArgDeltas ==
    [id : 1..(MaxNotes + 1), title : Opt({<<>>, <<98>>}),
     body : Opt({<<>>, <<121>>}), updatedAtUnixMs : 1..3, version : 1..2]

Reconcile(op, current, arg) ==
    CASE op = "upsertNote" -> upsertNote(current, arg)
      [] op = "applyDelta" -> applyDelta(current, arg)
      [] op = "removeNote" -> removeNote(current, arg)

ReconcileIdle ==
    /\ fnOp = "none"
    /\ fnNotes = <<>>
    /\ fnArg = <<>>
    /\ fnResult = <<>>
    /\ fnAgain = <<>>
    /\ fnStep = "idle"

ReconcileStart ==
    /\ fnNotes \in Collections
    /\ \/ fnOp = "upsertNote" /\ fnArg \in ArgNotes
       \/ fnOp = "applyDelta" /\ fnArg \in ArgDeltas
       \/ fnOp = "removeNote" /\ fnArg \in 1..(MaxNotes + 1)
    /\ fnResult = <<>>
    /\ fnAgain = <<>>
    /\ fnStep = "start"

ReconcileApply ==
    /\ fnStep = "start"
    /\ fnResult' = Reconcile(fnOp, fnNotes, fnArg)
    /\ fnStep' = "applied"
    /\ UNCHANGED <<fnOp, fnNotes, fnArg, fnAgain>>

ReconcileRepeat ==
    /\ fnStep = "applied"
    /\ fnAgain' = Reconcile(fnOp, fnResult, fnArg)
    /\ fnStep' = "repeated"
    /\ UNCHANGED <<fnOp, fnNotes, fnArg, fnResult>>

ReconcileNext == ReconcileApply \/ ReconcileRepeat

(***************************************************************************)
(* The transport of the API client: one operation is called and meets an   *)
(* HTTP response.  An error message is the sequence of the parts of its    *)
(* template literal.                                                       *)
(***************************************************************************)
\* Response.ok of the fetch standard
ResponseOk(response) == response.status \in 200..299

Fulfilled(v, calls) == [ok |-> TRUE, value |-> v, decodeCalls |-> calls]
Rejected(e, calls) == [ok |-> FALSE, error |-> e, decodeCalls |-> calls]

\* a transport that takes every status below 400 for a success
requestBelow400(method, path, type, response) ==
    IF response.status >= 400 THEN
        Rejected(<<method, " ">> \o path
                    \o <<" failed with ", response.status>>
                    \o (IF response.text.ok /\ response.text.value # ""
                        THEN <<": ", response.text.value>> ELSE <<>>), 0)
    ELSE IF DecodeBytes(type, response.payload).ok THEN
        Fulfilled(DecodeBytes(type, response.payload).value, 1)
    ELSE Rejected(<<DecodeBytes(type, response.payload).error>>, 1)

\* response.text() may reject, and then counts as the empty text
request(method, path, type, response) ==
    IF ~ResponseOk(response) THEN
        Rejected(<<method, " ">> \o path
                    \o <<" failed with ", response.status>>
                    \o (IF response.text.ok /\ response.text.value # ""
                        THEN <<": ", response.text.value>> ELSE <<>>), 0)
    ELSE IF DecodeBytes(type, response.payload).ok THEN
        Fulfilled(DecodeBytes(type, response.payload).value, 1)
    ELSE Rejected(<<DecodeBytes(type, response.payload).error>>, 1)

\* method, path and response type of the operations of the client
RequestOf(op, noteId) ==
    CASE op = "createNote" ->
            [method |-> "POST", path |-> <<"/api/notes">>,
             type |-> "CreateNoteResponse"]
      [] op = "listNotes" ->
            [method |-> "GET", path |-> <<"/api/notes">>,
             type |-> "ListNotesResponse"]
      [] op = "getNote" ->
            [method |-> "GET", path |-> <<"/api/notes/", noteId>>,
             type |-> "GetNoteResponse"]
      [] op = "updateNote" ->
            [method |-> "PATCH", path |-> <<"/api/notes/", noteId>>,
             type |-> "UpdateNoteResponse"]
      [] op = "deleteNote" ->
            [method |-> "DELETE", path |-> <<"/api/notes/", noteId>>,
             type |-> "DeleteNoteResponse"]

Operations == {"createNote", "listNotes", "getNote", "updateNote", "deleteNote"}

\* a body of no bytes, of one unknown field, and of a tag cut off
Responses ==
    [status : {200, 201, 299, 300, 404, 500},
     text : {Ok(""), Ok("gone"), Err("body stream already read")},
     payload : {<<>>, <<120, 1>>, <<128>>}]

RequestIdle ==
    /\ reqIn = <<>>
    /\ reqOut = <<>>
    /\ reqStep = "idle"

RequestStart ==
    /\ reqIn \in [op : Operations, noteId : {1, 7}, response : Responses]
    /\ reqOut = <<>>
    /\ reqStep = "start"

RequestSettle ==
    /\ reqStep = "start"
    /\ reqOut' = request(RequestOf(reqIn.op, reqIn.noteId).method,
                         RequestOf(reqIn.op, reqIn.noteId).path,
                         RequestOf(reqIn.op, reqIn.noteId).type,
                         reqIn.response)
    /\ reqStep' = "settled"
    /\ UNCHANGED reqIn

RequestNext == RequestSettle

(***************************************************************************)
(* subscribeNoteEvents: one socket with its four handlers, and the close   *)
(* function handed to the caller.  The socket is a WebSocket: it hands     *)
(* messages over while it is open, and close() on a closing or closed      *)
(* socket does nothing.  The lifecycle callbacks are those of the page     *)
(* (onMount); its onEvent returns normally, the onEvent of another caller  *)
(* may throw.  decodeSocketFrame settles before the next event of the      *)
(* socket, except for a Blob, whose arrayBuffer() settles at a later time. *)
(***************************************************************************)
\* a decodeSocketFrame that reads a text frame as no bytes
decodeSocketFrameText(data) ==
    IF data.type = "string" THEN Ok(<<>>) ELSE Ok(data.payload)

decodeSocketFrame(data) ==
    IF data.type = "string" THEN
        Err("expected protobuf binary websocket frame but received text")
    ELSE Ok(data.payload)

\* the payloads: no bytes, a Deleted event of id 1, an unknown field, a tag
\* cut off, a nested message that runs past the end
Frames ==
    [type : {"string", "Blob", "ArrayBuffer", "Uint8Array"},
     payload : {<<>>, <<26, 2, 8, 1>>, <<120, 1>>, <<128>>, <<10, 5, 8>>}]

\* what the onEvent of the page does, and what the onEvent of any caller may do
Returns == {FALSE}
MayThrow == {FALSE, TRUE}

HandlerError == "handler failed"
UnexpectedError == "Unexpected error"

CanFire == socketEvents < MaxSocketEvents
Fire == socketEvents' = socketEvents + 1

NoCalls == [onEvent |-> 0, onError |-> 0, onOpen |-> 0, onClose |-> 0]

ChannelIdle ==
    /\ sockets = 0
    /\ readyState = "NONE"
    /\ called = NoCalls
    /\ frame = <<>>
    /\ handled = <<>>
    /\ closeCalls = 0
    /\ socketEvents = 0
    /\ decoding = <<>>
    /\ arrivals = 0
    /\ order = <<>>
    /\ realtimeState = "connecting"
    /\ socketFailed = FALSE
    /\ threw = FALSE
    /\ uncaught = 0

\* the state when subscribeNoteEvents returns
ChannelStart ==
    /\ sockets = 1
    /\ readyState = "CONNECTING"
    /\ called = NoCalls
    /\ frame = <<>>
    /\ handled = <<>>
    /\ closeCalls = 0
    /\ socketEvents = 0
    /\ decoding = <<>>
    /\ arrivals = 0
    /\ order = <<>>
    /\ realtimeState = "connecting"
    /\ socketFailed = FALSE
    /\ threw = FALSE
    /\ uncaught = 0

\* onError of the page
OnError(message) ==
    /\ realtimeState' = "disconnected"
    /\ \E isLoading \in BOOLEAN :
        localErrorMessage' =
            IF isLoading THEN localErrorMessage ELSE Some(message)

NoError == UNCHANGED <<realtimeState, localErrorMessage>>

SocketOpen ==
    /\ CanFire /\ Fire
    /\ readyState = "CONNECTING"
    /\ readyState' = "OPEN"
    /\ called' = [called EXCEPT !.onOpen = @ + 1]
    /\ realtimeState' = "connected"
    /\ UNCHANGED <<sockets, frame, handled, closeCalls, decoding, arrivals,
                   order, socketFailed, threw, uncaught, localErrorMessage>>

\* a dispatch that lets the exception of the handler go
DispatchNoCatch(n, data, throws) ==
    /\ frame' = data
    /\ IF decodeSocketFrame(data).ok
          /\ decodeNoteEvent(decodeSocketFrame(data).value).ok
       THEN /\ handled' = decodeNoteEvent(decodeSocketFrame(data).value)
            /\ order' = Append(order, n)
            /\ \E t \in throws :
                /\ threw' = t
                /\ called' = [called EXCEPT !.onEvent = @ + 1]
                /\ uncaught' = IF t THEN uncaught + 1 ELSE uncaught
                /\ NoError
       ELSE /\ called' = [called EXCEPT !.onError = @ + 1]
            /\ OnError(IF decodeSocketFrame(data).ok
                       THEN decodeNoteEvent(decodeSocketFrame(data).value).error
                       ELSE decodeSocketFrame(data).error)
            /\ threw' = FALSE
            /\ UNCHANGED <<handled, order, uncaught>>

\* the promise of decodeSocketFrame for frame number n has settled: then and
\* catch of socket.onmessage
Dispatch(n, data, throws) ==
    /\ frame' = data
    /\ IF decodeSocketFrame(data).ok
          /\ decodeNoteEvent(decodeSocketFrame(data).value).ok
       THEN /\ handled' = decodeNoteEvent(decodeSocketFrame(data).value)
            /\ order' = Append(order, n)
            /\ \E t \in throws :
                /\ threw' = t
                /\ IF t THEN /\ called' = [called EXCEPT !.onEvent = @ + 1,
                                                         !.onError = @ + 1]
                             /\ OnError(HandlerError)
                   ELSE /\ called' = [called EXCEPT !.onEvent = @ + 1]
                        /\ NoError
            /\ UNCHANGED uncaught
       ELSE /\ called' = [called EXCEPT !.onError = @ + 1]
            /\ OnError(IF decodeSocketFrame(data).ok
                       THEN decodeNoteEvent(decodeSocketFrame(data).value).error
                       ELSE decodeSocketFrame(data).error)
            /\ threw' = FALSE
            /\ UNCHANGED <<handled, order, uncaught>>

\* socket.onmessage; a Blob is read later
SocketMessage(throws) ==
    /\ CanFire /\ Fire
    /\ readyState = "OPEN"
    /\ arrivals' = arrivals + 1
    /\ \E data \in Frames :
        IF data.type = "Blob"
        THEN /\ decoding' = Append(decoding, [n |-> arrivals', data |-> data])
             /\ UNCHANGED <<called, frame, handled, order, threw, uncaught,
                            realtimeState, localErrorMessage>>
        ELSE /\ Dispatch(arrivals', data, throws)
             /\ UNCHANGED decoding
    /\ UNCHANGED <<sockets, readyState, closeCalls, socketFailed>>

\* arrayBuffer() of a Blob settles, whatever has become of the socket
BlobRead(throws) ==
    /\ CanFire /\ Fire
    /\ \E i \in 1..Len(decoding) :
        /\ Dispatch(decoding[i].n, decoding[i].data, throws)
        /\ decoding' = SubSeq(decoding, 1, i - 1)
                       \o SubSeq(decoding, i + 1, Len(decoding))
    /\ UNCHANGED <<sockets, readyState, closeCalls, arrivals, socketFailed>>

SocketError ==
    /\ CanFire /\ Fire
    /\ readyState \in {"CONNECTING", "OPEN", "CLOSING"}
    /\ called' = [called EXCEPT !.onError = @ + 1]
    /\ OnError(UnexpectedError)
    /\ socketFailed' = TRUE
    /\ UNCHANGED <<sockets, readyState, frame, handled, closeCalls, decoding,
                   arrivals, order, threw, uncaught>>

\* a close that opens the next socket
SocketCloseReconnect ==
    /\ CanFire /\ Fire
    /\ readyState \in {"CONNECTING", "OPEN", "CLOSING"}
    /\ readyState' = "CONNECTING"
    /\ sockets' = sockets + 1
    /\ called' = [called EXCEPT !.onClose = @ + 1]
    /\ realtimeState' = "disconnected"
    /\ UNCHANGED <<frame, handled, closeCalls, decoding, arrivals, order,
                   socketFailed, threw, uncaught, localErrorMessage>>

SocketClose ==
    /\ CanFire /\ Fire
    /\ readyState \in {"CONNECTING", "OPEN", "CLOSING"}
    /\ readyState' = "CLOSED"
    /\ called' = [called EXCEPT !.onClose = @ + 1]
    /\ realtimeState' = "disconnected"
    /\ UNCHANGED <<sockets, frame, handled, closeCalls, decoding, arrivals,
                   order, socketFailed, threw, uncaught, localErrorMessage>>

\* the function that subscribeNoteEvents returned: socket.close()
Unsubscribe ==
    /\ CanFire /\ Fire
    /\ readyState' = IF readyState \in {"CONNECTING", "OPEN"}
                     THEN "CLOSING" ELSE readyState
    /\ closeCalls' = closeCalls + 1
    /\ UNCHANGED <<sockets, called, frame, handled, decoding, arrivals, order,
                   realtimeState, socketFailed, threw, uncaught,
                   localErrorMessage>>

\* the subscription of the page
ChannelNext ==
    \/ SocketOpen \/ SocketMessage(Returns) \/ BlobRead(Returns)
    \/ SocketError \/ SocketClose \/ Unsubscribe

\* the subscription of a caller whose handler may throw
CallerNext ==
    \/ SocketOpen \/ SocketMessage(MayThrow) \/ BlobRead(MayThrow)
    \/ SocketError \/ SocketClose \/ Unsubscribe

(***************************************************************************)
(* Several reconciler operations applied to one collection in two orders:  *)
(* a first order, and the order in which they arrive.                      *)
(***************************************************************************)
Orders(n) ==
    {p \in [1..n -> 1..n] : \A i, j \in 1..n : p[i] = p[j] => i = j}

OrderNotes ==
    [id : 1..(MaxNotes + 1), title : {<<98>>}, body : {<<>>},
     createdAtUnixMs : {0}, updatedAtUnixMs : 1..3, version : {2}]

OrderDeltas ==
    [id : 1..(MaxNotes + 1), title : Opt({<<98>>}), body : {Undefined},
     updatedAtUnixMs : 1..3, version : {2}]

OrderArgs(op) ==
    CASE op = "upsertNote" -> OrderNotes
      [] op = "applyDelta" -> OrderDeltas
      [] op = "removeNote" -> 1..(MaxNotes + 1)

\* the id an operation targets
TargetId(op, arg) == IF op = "removeNote" THEN arg ELSE arg.id

\* the entities of the ordering example: ids 10, 20, 30 updated at 5, 5, 3
ExampleNote(id, updatedAt) ==
    [id |-> id, title |-> <<97>>, body |-> <<>>, createdAtUnixMs |-> 0,
     updatedAtUnixMs |-> updatedAt, version |-> 1]

ExampleNotes == <<ExampleNote(10, 5), ExampleNote(20, 5), ExampleNote(30, 3)>>

OrderIdle ==
    /\ ordNotes = <<>>
    /\ ordOps = <<>>
    /\ ordArgs = <<>>
    /\ ordPerm = <<>>
    /\ ordRef = <<>>
    /\ ordCur = <<>>
    /\ ordPos = 0

OrderStart ==
    /\ \/ /\ ordNotes \in Collections
          /\ ordOps \in [1..2 -> {"upsertNote", "applyDelta", "removeNote"}]
          /\ ordArgs \in OrderArgs(ordOps[1]) \X OrderArgs(ordOps[2])
          /\ TargetId(ordOps[1], ordArgs[1]) # TargetId(ordOps[2], ordArgs[2])
          /\ ordPerm \in Orders(2)
       \/ /\ ordNotes = <<>>
          /\ ordOps = [i \in 1..3 |-> "upsertNote"]
          /\ ordArgs = ExampleNotes
          /\ ordPerm \in Orders(3)
    /\ ordRef = ordNotes
    /\ ordCur = ordNotes
    /\ ordPos = 0

OrderApply ==
    /\ ordPos < Len(ordOps)
    /\ ordRef' = Reconcile(ordOps[ordPos + 1], ordRef, ordArgs[ordPos + 1])
    /\ ordCur' = Reconcile(ordOps[ordPerm[ordPos + 1]], ordCur,
                           ordArgs[ordPerm[ordPos + 1]])
    /\ ordPos' = ordPos + 1
    /\ UNCHANGED <<ordNotes, ordOps, ordArgs, ordPerm>>

OrderNext == OrderApply

(***************************************************************************)
(* Editor page (routes/+page.svelte) on top of the query cache, with the   *)
(* notes service and the event channel as its environment.                 *)
(***************************************************************************)
Titles == {<<97>>, <<98>>}
Bodies == {<<>>, <<120>>}
\* what the create form of this page is filled with
NewBodies == {<<>>}
\* what the other clients of the service write
OtherTitles == {<<98>>}
OtherBodies == {<<120>>}
\* milliseconds between two mutations: a create can fall into the millisecond
\* of the mutation before it, an update comes later
CreateDelays == 0..1
UpdateDelays == {1}
\* a mutation creates at most one note
MaxId == MaxOps + 1
Ids == 1..MaxId

Idle == [stage |-> "idle"]

\* notes.find((note) => note.id === id) ?? null, for an optional id
FindNote(ns, optId) ==
    IF ~IsDefined(optId) THEN Undefined
    ELSE LET i == findIndex(ns, ValueOf(optId)) IN
         IF i = 0 THEN Undefined ELSE Some(ns[i])

selectedNote == FindNote(notes, selectedNoteId)

hasUnsavedChanges ==
    /\ IsDefined(selectedNote)
    /\ \/ draftTitle # ValueOf(selectedNote).title
       \/ draftBody # ValueOf(selectedNote).body

isSaving == updateReq.stage # "idle"
isCreating == createReq.stage # "idle"
isDeleting == deleteReq.stage # "idle"
isFetching == listReq.stage # "idle"

IsWhiteSpace(c) ==
    c \in {9, 10, 11, 12, 13, 32, 160, 5760, 8232, 8233, 8239, 8287, 12288,
           65279} \cup (8192..8202)

\* String.prototype.trim
RECURSIVE trim(_)
trim(t) ==
    IF t = <<>> THEN t
    ELSE IF IsWhiteSpace(t[1]) THEN trim(Tail(t))
    ELSE IF IsWhiteSpace(t[Len(t)]) THEN trim(SubSeq(t, 1, Len(t) - 1))
    ELSE t

\* the three editor variables as one value
Editor == [selectedNoteId |-> selectedNoteId, draftTitle |-> draftTitle,
           draftBody |-> draftBody]

SetEditor(ed) ==
    /\ selectedNoteId' = ed.selectedNoteId
    /\ draftTitle' = ed.draftTitle
    /\ draftBody' = ed.draftBody

selectNote(ns, noteId) ==
    LET note == FindNote(ns, noteId) IN
    [selectedNoteId |-> noteId,
     draftTitle |-> IF IsDefined(note) THEN ValueOf(note).title ELSE <<>>,
     draftBody |-> IF IsDefined(note) THEN ValueOf(note).body ELSE <<>>]

\* an effect that keeps a selection whose note has left the list
SelectionEffectKeep(ns, ed) ==
    IF ns = <<>> THEN
        (IF IsDefined(ed.selectedNoteId) THEN selectNote(ns, Undefined) ELSE ed)
    ELSE IF ~IsDefined(ed.selectedNoteId) THEN selectNote(ns, Some(ns[1].id))
    ELSE ed

\* the first $effect: keeps the selection on an entry of the list
SelectionEffect(ns, ed) ==
    IF ns = <<>> THEN
        (IF IsDefined(ed.selectedNoteId) THEN selectNote(ns, Undefined) ELSE ed)
    ELSE IF ~IsDefined(ed.selectedNoteId) THEN selectNote(ns, Some(ns[1].id))
    ELSE IF findIndex(ns, ValueOf(ed.selectedNoteId)) = 0
        THEN selectNote(ns, Some(ns[1].id))
    ELSE ed

\* a synchronisation of the title only
applyDraftDeltaTitle(ed, delta) ==
    [ed EXCEPT
        !.draftTitle = IF IsDefined(delta.title)
                       THEN ValueOf(delta.title) ELSE @]

applyDraftDelta(ed, delta) ==
    [ed EXCEPT
        !.draftTitle = IF IsDefined(delta.title)
                       THEN ValueOf(delta.title) ELSE @,
        !.draftBody = IF IsDefined(delta.body)
                      THEN ValueOf(delta.body) ELSE @]

\* a cache write whose default branch empties the collection
applyNoteEventToCacheReset(current, event) ==
    CASE event.case = "created" -> upsertNote(current, event.value)
      [] event.case = "updated" -> applyDelta(current, event.value)
      [] event.case = "deleted" -> removeNote(current, event.value.id)
      [] OTHER -> <<>>

applyNoteEventToCache(current, event) ==
    CASE event.case = "created" -> upsertNote(current, event.value)
      [] event.case = "updated" -> applyDelta(current, event.value)
      [] event.case = "deleted" -> removeNote(current, event.value.id)
      [] OTHER -> current

\* a handler that synchronises the editor whether or not the draft is dirty
handleRealtimeEventAlways(ed, unsaved, event) ==
    IF event.case = "updated" /\ ed.selectedNoteId = Some(event.value.id)
    THEN applyDraftDelta(ed, event.value)
    ELSE ed

\* the editor after handleRealtimeEvent, before the cache write is rendered
handleRealtimeEvent(ed, unsaved, event) ==
    IF event.case = "updated"
       /\ ~unsaved /\ ed.selectedNoteId = Some(event.value.id)
    THEN applyDraftDelta(ed, event.value)
    ELSE ed

(***************************************************************************)
(* The notes service: stores the notes, assigns ids, versions and          *)
(* timestamps, and pushes one event per mutation to the channel.           *)
(***************************************************************************)
StoredNotes ==
    LET RECURSIVE From(_)
        From(i) == IF i > MaxId THEN <<>>
                   ELSE (IF IsDefined(srv[i]) THEN <<ValueOf(srv[i])>> ELSE <<>>)
                        \o From(i + 1)
    IN From(1)

Created(t, b) ==
    [id |-> nextId, title |-> t, body |-> b, createdAtUnixMs |-> now,
     updatedAtUnixMs |-> now, version |-> 1]

Updated(old, t, b) ==
    [old EXCEPT !.title = IF IsDefined(t) THEN ValueOf(t) ELSE @,
                !.body = IF IsDefined(b) THEN ValueOf(b) ELSE @,
                !.updatedAtUnixMs = now,
                !.version = @ + 1]

DeltaOf(note, t, b) ==
    [id |-> note.id, title |-> t, body |-> b,
     updatedAtUnixMs |-> note.updatedAtUnixMs, version |-> note.version]

Push(event) == wsQueue' = Append(wsQueue, event)

\* a mutation happens at the current millisecond or at the next one
Advance(dt) == now' = now + dt

\* one more request issued to the service, by this client or by another one
CanIssue == ops < MaxOps

\* requests of this page that have not been answered and rendered yet
InFlight ==
    Cardinality({r \in {"list", "create", "update", "delete"} :
        CASE r = "list" -> listReq.stage # "idle"
          [] r = "create" -> createReq.stage # "idle"
          [] r = "update" -> updateReq.stage # "idle"
          [] r = "delete" -> deleteReq.stage # "idle"})

CanSend == CanIssue /\ InFlight < MaxInFlight
Issue == ops' = ops + 1

SrvCreate(t, b, dt) ==
    /\ Advance(dt)
    /\ LET note == [Created(t, b) EXCEPT !.createdAtUnixMs = now',
                                         !.updatedAtUnixMs = now'] IN
        /\ srv' = [srv EXCEPT ![nextId] = Some(note)]
        /\ Push([case |-> "created", value |-> note])
    /\ nextId' = nextId + 1

SrvUpdate(id, t, b, dt) ==
    /\ IsDefined(srv[id])
    /\ Advance(dt)
    /\ LET note == [Updated(ValueOf(srv[id]), t, b)
                        EXCEPT !.updatedAtUnixMs = now'] IN
        /\ srv' = [srv EXCEPT ![id] = Some(note)]
        /\ Push([case |-> "updated", value |-> DeltaOf(note, t, b)])
    /\ UNCHANGED nextId

SrvDelete(id) ==
    /\ IsDefined(srv[id])
    /\ srv' = [srv EXCEPT ![id] = Undefined]
    /\ Push([case |-> "deleted", value |-> [id |-> id]])
    /\ UNCHANGED <<nextId, now>>

\* a step of the service, or of a response: no handler of a form is called
NoHistory == /\ lastEvent' = Undefined
             /\ UNCHANGED <<removed, saved, failedSave>>

\* a step of the user
UserHistory == /\ lastEvent' = Undefined
               /\ failedSave' = FALSE
               /\ UNCHANGED <<removed, saved>>

\* another client of the service creates, updates or deletes a note
OtherCreate ==
    /\ CanIssue /\ Issue
    /\ \E t \in OtherTitles, b \in OtherBodies, dt \in CreateDelays :
        SrvCreate(t, b, dt)
    /\ NoHistory
    /\ UNCHANGED <<pageVars, localErrorMessage, reqVars>>

OtherUpdate ==
    /\ CanIssue /\ Issue
    /\ \E id \in Ids, t \in Opt(Titles), b \in Opt(Bodies),
          dt \in UpdateDelays :
        /\ IsDefined(t) # IsDefined(b)
        /\ SrvUpdate(id, t, b, dt)
    /\ NoHistory
    /\ UNCHANGED <<pageVars, localErrorMessage, reqVars>>

OtherDelete ==
    /\ CanIssue /\ Issue
    /\ \E id \in Ids : SrvDelete(id)
    /\ NoHistory
    /\ UNCHANGED <<pageVars, localErrorMessage, reqVars>>

\* a frame whose only member is unknown to this client decodes to the event
\* with no case set
OtherEvent ==
    /\ CanIssue /\ Issue
    /\ Push([case |-> "none"])
    /\ NoHistory
    /\ UNCHANGED <<pageVars, localErrorMessage, reqVars, srvVars>>

\* the messages of the errors that a mutation of the client rejects with: of
\* request for a status that is no success, of fromBinary for a payload that
\* does not decode, and of createNote and updateNote for a response that has
\* no note
StatusError == "failed with 500"
NotFoundError == "failed with 404"
DecodeError == "premature EOF"
EmptyCreateError == "backend returned an empty create response"
EmptyUpdateError == "backend returned an empty update response"

CreateFailures == {StatusError, DecodeError, EmptyCreateError}
UpdateFailures == {StatusError, DecodeError, EmptyUpdateError}
DeleteFailures == {StatusError, DecodeError}

Failed(message) == [stage |-> "failed", error |-> message]

ServeList ==
    /\ listReq.stage = "sent"
    /\ listReq' = [stage |-> "ok", notes |-> StoredNotes]
    /\ NoHistory
    /\ UNCHANGED <<pageVars, localErrorMessage, createReq, updateReq,
                   deleteReq, srvVars, ops, wsQueue>>

ServeCreate ==
    /\ createReq.stage = "sent"
    /\ \E dt \in CreateDelays :
        SrvCreate(createReq.title, createReq.body, dt)
    /\ createReq' = [stage |-> "ok", note |-> ValueOf(srv'[nextId])]
    /\ NoHistory
    /\ UNCHANGED <<pageVars, localErrorMessage, listReq, updateReq, deleteReq,
                   ops>>

ServeUpdate ==
    /\ updateReq.stage = "sent"
    /\ \/ /\ \E dt \in UpdateDelays :
                SrvUpdate(updateReq.noteId, updateReq.title, updateReq.body, dt)
          /\ updateReq' =
                [stage |-> "ok",
                 titleOnly |-> ~IsDefined(updateReq.body),
                 note |-> ValueOf(srv'[updateReq.noteId])]
       \/ /\ ~IsDefined(srv[updateReq.noteId])
          /\ updateReq' = Failed(NotFoundError)
          /\ UNCHANGED <<srvVars, wsQueue>>
    /\ NoHistory
    /\ UNCHANGED <<pageVars, localErrorMessage, listReq, createReq, deleteReq,
                   ops>>

ServeDelete ==
    /\ deleteReq.stage = "sent"
    /\ \/ /\ SrvDelete(deleteReq.noteId)
          /\ deleteReq' = [stage |-> "ok", id |-> deleteReq.noteId]
       \/ /\ ~IsDefined(srv[deleteReq.noteId])
          /\ deleteReq' = Failed(NotFoundError)
          /\ UNCHANGED <<srvVars, wsQueue>>
    /\ NoHistory
    /\ UNCHANGED <<pageVars, localErrorMessage, listReq, createReq, updateReq,
                   ops>>

\* a mutation of the page fails on its way: the service stores nothing, and
\* the client gets a status that is no success, a payload that does not
\* decode, or a response with no note
FailCreate ==
    /\ createReq.stage = "sent"
    /\ \E message \in CreateFailures : createReq' = Failed(message)
    /\ NoHistory
    /\ UNCHANGED <<pageVars, localErrorMessage, listReq, updateReq, deleteReq,
                   srvVars, ops, wsQueue>>

FailUpdate ==
    /\ updateReq.stage = "sent"
    /\ \E message \in UpdateFailures : updateReq' = Failed(message)
    /\ NoHistory
    /\ UNCHANGED <<pageVars, localErrorMessage, listReq, createReq, deleteReq,
                   srvVars, ops, wsQueue>>

FailDelete ==
    /\ deleteReq.stage = "sent"
    /\ \E message \in DeleteFailures : deleteReq' = Failed(message)
    /\ NoHistory
    /\ UNCHANGED <<pageVars, localErrorMessage, listReq, createReq, updateReq,
                   srvVars, ops, wsQueue>>

(***************************************************************************)
(* The page: user actions, responses of the requests, frames of the        *)
(* channel.  Every step that changes the list or the selection ends with   *)
(* the selection effect.  The handlers of the two forms are called with    *)
(* whatever the form holds: with a title, in the page next to the other    *)
(* clients of the service; with any text, in the page on its own.          *)
(***************************************************************************)
TitleRequired == "Title is required"

\* what the user types into a title: a title, blanks, a title with a blank
BlankTitles == {<<>>, <<32>>}
PaddedTitles == {<<97, 32>>}
NewTitles == {<<98>>} \cup BlankTitles
DraftTitles == Titles \cup {<<32>>} \cup PaddedTitles

\* refreshNotes: notesQuery.refetch()
RefreshNotes ==
    /\ listReq.stage = "idle"
    /\ CanSend /\ Issue
    /\ listReq' = [stage |-> "sent"]
    /\ localErrorMessage' = Undefined
    /\ UserHistory
    /\ UNCHANGED <<pageVars, createReq, updateReq, deleteReq, srvVars, wsQueue>>

\* queryFn resolves with listNotes(): the sorted response becomes the data
DeliverList ==
    /\ listReq.stage = "ok"
    /\ notes' = sortNotes(listReq.notes)
    /\ SetEditor(SelectionEffect(notes', Editor))
    /\ listReq' = Idle
    /\ NoHistory
    /\ UNCHANGED <<localErrorMessage, createReq, updateReq, deleteReq, srvVars,
                   ops, wsQueue>>

\* the submit of the create form; one create is pending at a time
\* a validation of the title as the user typed it
createOutcomeUntrimmed(newTitle) ==
    IF newTitle = <<>> THEN "invalid" ELSE "send"

\* what a call of createNote does: it rejects the title or sends a request
createOutcome(newTitle) ==
    IF trim(newTitle) = <<>> THEN "invalid" ELSE "send"

createNote(newTitle, newBody) ==
    /\ IF createOutcome(newTitle) = "invalid" THEN
            /\ localErrorMessage' = Some(TitleRequired)
            /\ UNCHANGED <<createReq, ops>>
       ELSE /\ ~isCreating
            /\ CanSend /\ Issue
            /\ localErrorMessage' = Undefined
            /\ createReq' = [stage |-> "sent", title |-> trim(newTitle),
                             body |-> newBody]
    /\ UserHistory
    /\ UNCHANGED <<pageVars, listReq, updateReq, deleteReq, srvVars, wsQueue>>

\* the submit of the create form, which holds one of the titles
SubmitCreate(titles) ==
    \E newTitle \in titles, newBody \in NewBodies :
        createNote(newTitle, newBody)

\* onSuccess of the create mutation and the rest of createNote, or its catch
DeliverCreate ==
    /\ \/ /\ createReq.stage = "ok"
          /\ notes' = upsertNote(notes, createReq.note)
          /\ SetEditor(SelectionEffect(notes',
                  [selectedNoteId |-> Some(createReq.note.id),
                   draftTitle |-> createReq.note.title,
                   draftBody |-> createReq.note.body]))
          /\ UNCHANGED localErrorMessage
       \/ /\ createReq.stage = "failed"
          /\ localErrorMessage' = Some(createReq.error)
          /\ UNCHANGED pageVars
    /\ createReq' = Idle
    /\ NoHistory
    /\ UNCHANGED <<listReq, updateReq, deleteReq, srvVars, ops, wsQueue>>

\* an update request that carries the title as the user typed it
updateRequestUntrimmed(title, body, note) ==
    [title |-> IF title # note.title THEN Some(title) ELSE Undefined,
     body |-> IF body # note.body THEN Some(body) ELSE Undefined]

\* the updateRequest of saveSelectedNote
updateRequest(title, body, note) ==
    [title |-> IF trim(title) # note.title THEN Some(trim(title))
               ELSE Undefined,
     body |-> IF body # note.body THEN Some(body) ELSE Undefined]

\* called by the auto-save timer and by the submit of the editor form, which
\* is there while a note is selected
\* a saveSelectedNote that does not look at the pending update
saveOutcomeNoPending ==
    IF ~IsDefined(selectedNote) THEN "return"
    ELSE IF trim(draftTitle) = <<>> THEN "invalid"
    ELSE IF updateRequest(draftTitle, draftBody, ValueOf(selectedNote))
            = [title |-> Undefined, body |-> Undefined] THEN "return"
    ELSE "send"

\* what a call of saveSelectedNote does: it returns at once, or it rejects
\* the title, or it sends a request
saveOutcome ==
    IF ~IsDefined(selectedNote) THEN "return"
    ELSE IF isSaving THEN "return"
    ELSE IF trim(draftTitle) = <<>> THEN "invalid"
    ELSE IF updateRequest(draftTitle, draftBody, ValueOf(selectedNote))
            = [title |-> Undefined, body |-> Undefined] THEN "return"
    ELSE "send"

saveSelectedNote(by) ==
    /\ IsDefined(selectedNote)
    /\ CASE saveOutcome = "return" ->
                UNCHANGED <<localErrorMessage, updateReq, ops>>
         [] saveOutcome = "invalid" ->
                /\ localErrorMessage' = Some(TitleRequired)
                /\ UNCHANGED <<updateReq, ops>>
         [] saveOutcome = "send" ->
                /\ CanSend /\ Issue
                /\ localErrorMessage' = Undefined
                /\ updateReq' =
                    [stage |-> "sent", noteId |-> ValueOf(selectedNote).id]
                    @@ updateRequest(draftTitle, draftBody,
                                     ValueOf(selectedNote))
    /\ IF by = "submit" THEN UserHistory ELSE NoHistory
    /\ UNCHANGED <<pageVars, listReq, createReq, deleteReq, srvVars, wsQueue>>

\* the condition of the auto-save $effect: when it holds after a run of the
\* effect, the timer is set
autoSaveDue ==
    ~(\/ ~IsDefined(selectedNote)
      \/ isSaving
      \/ ~hasUnsavedChanges
      \/ trim(draftTitle) = <<>>)

\* the timer of the auto-save $effect fires
AutoSave == autoSaveDue /\ saveSelectedNote("timer")

\* the submit of the editor form
SubmitEditor == saveSelectedNote("submit")

\* onSuccess of the update mutation, or the catch of saveSelectedNote
DeliverUpdate ==
    /\ \/ /\ updateReq.stage = "ok"
          /\ notes' = upsertNote(notes, updateReq.note)
          /\ SetEditor(SelectionEffect(notes', Editor))
          /\ saved' = IF updateReq.titleOnly
                      THEN Some([id |-> updateReq.note.id,
                                 version |-> updateReq.note.version])
                      ELSE saved
          /\ UNCHANGED <<localErrorMessage, failedSave>>
       \/ /\ updateReq.stage = "failed"
          /\ localErrorMessage' = Some(updateReq.error)
          /\ failedSave' = TRUE
          /\ UNCHANGED <<pageVars, saved>>
    /\ updateReq' = Idle
    /\ lastEvent' = Undefined
    /\ UNCHANGED <<listReq, createReq, deleteReq, srvVars, ops, wsQueue,
                   removed>>

deleteSelectedNote ==
    /\ IsDefined(selectedNote)
    /\ ~isDeleting
    /\ CanSend /\ Issue
    /\ localErrorMessage' = Undefined
    /\ deleteReq' = [stage |-> "sent", noteId |-> ValueOf(selectedNote).id]
    /\ UserHistory
    /\ UNCHANGED <<pageVars, listReq, createReq, updateReq, srvVars, wsQueue>>

\* a failure of the delete request that drops the first note of the cache
DeliverDeleteDropping ==
    /\ \/ /\ deleteReq.stage = "ok"
          /\ notes' = removeNote(notes, deleteReq.id)
          /\ SetEditor(SelectionEffect(notes', Editor))
          /\ removed' = IF findIndex(notes, deleteReq.id) # 0
                        THEN removed \cup {deleteReq.id} ELSE removed
          /\ UNCHANGED localErrorMessage
       \/ /\ deleteReq.stage = "failed"
          /\ localErrorMessage' = Some(deleteReq.error)
          /\ notes' = IF notes = <<>> THEN notes ELSE Tail(notes)
          /\ UNCHANGED <<selectedNoteId, draftTitle, draftBody, removed>>
    /\ deleteReq' = Idle
    /\ lastEvent' = Undefined
    /\ UNCHANGED <<listReq, createReq, updateReq, srvVars, ops, wsQueue, saved,
                   failedSave>>

\* onSuccess of the delete mutation, or the catch of deleteSelectedNote
DeliverDelete ==
    /\ \/ /\ deleteReq.stage = "ok"
          /\ notes' = removeNote(notes, deleteReq.id)
          /\ SetEditor(SelectionEffect(notes', Editor))
          /\ removed' = IF findIndex(notes, deleteReq.id) # 0
                        THEN removed \cup {deleteReq.id} ELSE removed
          /\ UNCHANGED localErrorMessage
       \/ /\ deleteReq.stage = "failed"
          /\ localErrorMessage' = Some(deleteReq.error)
          /\ UNCHANGED <<pageVars, removed>>
    /\ deleteReq' = Idle
    /\ lastEvent' = Undefined
    /\ UNCHANGED <<listReq, createReq, updateReq, srvVars, ops, wsQueue, saved,
                   failedSave>>

\* click on an entry of the list
UserSelect ==
    /\ \E i \in 1..Len(notes) :
        /\ selectedNoteId # Some(notes[i].id)
        /\ SetEditor(selectNote(notes, Some(notes[i].id)))
    /\ UserHistory
    /\ UNCHANGED <<notes, localErrorMessage, reqVars, srvVars, ops, wsQueue>>

\* typing one of the titles, or a body, in the editor form
EditDraft(titles) ==
    /\ IsDefined(selectedNote)
    /\ \/ /\ \E t \in titles : t # draftTitle /\ draftTitle' = t
          /\ UNCHANGED draftBody
       \/ /\ \E b \in Bodies : b # draftBody /\ draftBody' = b
          /\ UNCHANGED draftTitle
    /\ UserHistory
    /\ UNCHANGED <<notes, selectedNoteId, localErrorMessage, reqVars, srvVars,
                   ops, wsQueue>>

\* the fields of the draft that hold what the cached note holds
Unedited ==
    IF ~IsDefined(selectedNote) THEN {}
    ELSE (IF draftTitle = ValueOf(selectedNote).title THEN {"title"} ELSE {})
         \cup (IF draftBody = ValueOf(selectedNote).body THEN {"body"} ELSE {})

\* socket.onmessage with the next frame: handleRealtimeEvent
DeliverEvent ==
    /\ wsQueue # <<>>
    /\ LET event == Head(wsQueue) IN
        /\ notes' = applyNoteEventToCache(notes, event)
        /\ SetEditor(SelectionEffect(notes',
                handleRealtimeEvent(Editor, hasUnsavedChanges, event)))
        /\ removed' = IF event.case = "deleted"
                         /\ findIndex(notes, event.value.id) # 0
                      THEN removed \cup {event.value.id} ELSE removed
        /\ lastEvent' = Some([event |-> event, dirty |-> hasUnsavedChanges,
                              selected |-> selectedNoteId,
                              unedited |-> Unedited])
    /\ wsQueue' = Tail(wsQueue)
    /\ UNCHANGED <<localErrorMessage, reqVars, srvVars, ops, saved, failedSave>>

\* the service starts with one stored note
SrvStart ==
    /\ srv = [i \in Ids |->
                IF i = 1 THEN Some([id |-> 1, title |-> <<97>>, body |-> <<>>,
                                    createdAtUnixMs |-> 1,
                                    updatedAtUnixMs |-> 1, version |-> 1])
                ELSE Undefined]
    /\ nextId = 2

SysStart ==
    /\ notes = <<>>
    /\ selectedNoteId = Undefined
    /\ draftTitle = <<>>
    /\ draftBody = <<>>
    /\ listReq = [stage |-> "sent"]
    /\ createReq = Idle
    /\ updateReq = Idle
    /\ deleteReq = Idle
    /\ SrvStart
    /\ now = 1
    /\ ops = 0
    /\ wsQueue = <<>>
    /\ removed = {}
    /\ saved = Undefined
    /\ lastEvent = Undefined
    /\ localErrorMessage = Undefined
    /\ failedSave = FALSE

SysIdle ==
    /\ notes = <<>>
    /\ selectedNoteId = Undefined
    /\ draftTitle = <<>>
    /\ draftBody = <<>>
    /\ listReq = Idle
    /\ createReq = Idle
    /\ updateReq = Idle
    /\ deleteReq = Idle
    /\ srv = [i \in Ids |-> Undefined]
    /\ nextId = 1
    /\ now = 1
    /\ ops = 0
    /\ wsQueue = <<>>
    /\ removed = {}
    /\ saved = Undefined
    /\ lastEvent = Undefined
    /\ localErrorMessage = Undefined
    /\ failedSave = FALSE

\* the parts of the model that a specification leaves in their idle state
IdleBut(part) ==
    /\ IF part = "sys" THEN TRUE ELSE SysIdle
    /\ IF part = "codec" THEN TRUE ELSE CodecIdle
    /\ IF part = "reconcile" THEN TRUE ELSE ReconcileIdle
    /\ IF part = "order" THEN TRUE ELSE OrderIdle
    /\ IF part = "wire" THEN TRUE ELSE WireIdle
    /\ IF part = "request" THEN TRUE ELSE RequestIdle
    /\ IF part = "channel" THEN TRUE ELSE ChannelIdle

KeepBut(part) ==
    /\ IF part = "sys" THEN TRUE
       ELSE IF part = "channel"
       THEN UNCHANGED <<pageVars, reqVars, srvVars, ops, wsQueue, histVars>>
       ELSE UNCHANGED sysVars
    /\ IF part = "codec" THEN TRUE ELSE UNCHANGED codecVars
    /\ IF part = "reconcile" THEN TRUE ELSE UNCHANGED fnVars
    /\ IF part = "order" THEN TRUE ELSE UNCHANGED ordVars
    /\ IF part = "wire" THEN TRUE ELSE UNCHANGED wireVars
    /\ IF part = "request" THEN TRUE ELSE UNCHANGED requestVars
    /\ IF part = "channel" THEN TRUE ELSE UNCHANGED chanVars

Init == SysStart /\ IdleBut("sys")

SysNext ==
    \/ RefreshNotes \/ ServeList \/ DeliverList
    \/ SubmitCreate(Titles) \/ ServeCreate \/ DeliverCreate
    \/ AutoSave \/ SubmitEditor \/ ServeUpdate \/ DeliverUpdate
    \/ deleteSelectedNote \/ ServeDelete \/ DeliverDelete
    \/ UserSelect \/ EditDraft(Titles) \/ DeliverEvent
    \/ OtherCreate \/ OtherUpdate \/ OtherDelete \/ OtherEvent

Next == SysNext /\ KeepBut("sys")

Spec == Init /\ [][Next]_vars

\* the page on its own, with mutations that fail on their way: no other
\* client of the service
FormsNext ==
    \/ RefreshNotes \/ ServeList \/ DeliverList
    \/ SubmitCreate(NewTitles) \/ ServeCreate \/ FailCreate \/ DeliverCreate
    \/ AutoSave \/ SubmitEditor \/ ServeUpdate \/ FailUpdate \/ DeliverUpdate
    \/ deleteSelectedNote \/ ServeDelete \/ FailDelete \/ DeliverDelete
    \/ UserSelect \/ EditDraft(DraftTitles) \/ DeliverEvent

SpecForms == Init /\ [][FormsNext /\ KeepBut("sys")]_vars

CodecInit == CodecStart /\ IdleBut("codec")

SpecCodec == CodecInit /\ [][CodecNext /\ KeepBut("codec")]_vars

ReconcileInit == ReconcileStart /\ IdleBut("reconcile")

SpecReconcile ==
    ReconcileInit /\ [][ReconcileNext /\ KeepBut("reconcile")]_vars

OrderInit == OrderStart /\ IdleBut("order")

SpecOrder == OrderInit /\ [][OrderNext /\ KeepBut("order")]_vars

WireInit == WireStart /\ IdleBut("wire")

SpecWire == WireInit /\ [][WireNext /\ KeepBut("wire")]_vars

RequestInit == RequestStart /\ IdleBut("request")

SpecRequest == RequestInit /\ [][RequestNext /\ KeepBut("request")]_vars

ChannelInit == ChannelStart /\ IdleBut("channel")

SpecChannel == ChannelInit /\ [][ChannelNext /\ KeepBut("channel")]_vars

SpecCaller == ChannelInit /\ [][CallerNext /\ KeepBut("channel")]_vars

(***************************************************************************)
(* Properties.                                                             *)
(***************************************************************************)
\* C1: for every message type and every message whose integer fields lie in
\* 0..2^53-1, decoding the encoded message gives the message back, whatever
\* optional fields are present.
CodecRoundTrip == cstep = "decoded" => decoded = Ok(cmsg)

\* C2: when the page handles an Updated event for the selected note while
\* the draft has unsaved changes, draftTitle and draftBody stay as they were
\* and the cached entity of that id is the merge of the old one with the delta.
DraftPreserved ==
    [][(/\ DeliverEvent
        /\ Head(wsQueue).case = "updated"
        /\ selectedNoteId = Some(Head(wsQueue).value.id)
        /\ hasUnsavedChanges)
       => LET delta == Head(wsQueue).value
              old == ValueOf(selectedNote)
              new == FindNote(notes', selectedNoteId)
          IN /\ draftTitle' = draftTitle
             /\ draftBody' = draftBody
             /\ selectedNoteId' = selectedNoteId
             /\ new = Some([old EXCEPT
                    !.title = IF IsDefined(delta.title)
                              THEN ValueOf(delta.title) ELSE @,
                    !.body = IF IsDefined(delta.body)
                             THEN ValueOf(delta.body) ELSE @,
                    !.updatedAtUnixMs = delta.updatedAtUnixMs,
                    !.version = delta.version])]_vars

\* an Updated event for the selected note has just been handled over a dirty
\* draft whose title is not the one of the delta
DraftPreservedWitness ==
    /\ IsDefined(lastEvent)
    /\ LET e == ValueOf(lastEvent) IN
        /\ e.event.case = "updated"
        /\ e.dirty
        /\ e.selected = Some(e.event.value.id)
        /\ IsDefined(e.event.value.title)
        /\ draftTitle # ValueOf(e.event.value.title)
        /\ IsDefined(selectedNote)
        /\ ValueOf(selectedNote).title = ValueOf(e.event.value.title)

\* C3: an Updated event whose version is not above the version the cache
\* holds for its id leaves the cache as it is, so that the cached version of
\* an id is never lowered.
StaleDeltaRejected ==
    [][(/\ DeliverEvent
        /\ Head(wsQueue).case = "updated"
        /\ LET i == findIndex(notes, Head(wsQueue).value.id) IN
            /\ i # 0
            /\ Head(wsQueue).value.version <= notes[i].version)
       => notes' = notes]_vars

\* C4: once the response of a title-only update is in the cache with version
\* v, an Updated event of the same id with a title and a version below v does
\* not change the cached title.
FreshTitleKept ==
    [][(/\ DeliverEvent
        /\ Head(wsQueue).case = "updated"
        /\ IsDefined(saved)
        /\ LET delta == Head(wsQueue).value
               i == findIndex(notes, delta.id)
           IN /\ delta.id = ValueOf(saved).id
              /\ delta.version < ValueOf(saved).version
              /\ IsDefined(delta.title)
              /\ i # 0
              /\ notes[i].version = ValueOf(saved).version)
       => LET id == Head(wsQueue).value.id IN
          /\ findIndex(notes', id) # 0
          /\ notes'[findIndex(notes', id)].title
                = notes[findIndex(notes, id)].title]_vars

\* C5: the cached collection is always ordered by updatedAtUnixMs descending
\* and, among equal timestamps, by id descending.
CacheSorted == IsSorted(notes)

\* a Created event has just been handled and the two newest entries of the
\* cache carry the same timestamp
CacheSortedWitness ==
    /\ IsDefined(lastEvent)
    /\ ValueOf(lastEvent).event.case = "created"
    /\ Len(notes) >= 2
    /\ notes[1].updatedAtUnixMs = notes[2].updatedAtUnixMs
    /\ notes[1].id > notes[2].id

\* C6: no two entries of the cached collection have the same id.
CacheUniqueIds == HasUniqueIds(notes)

\* a Created event has just been handled for a note that the cache already
\* held, with other entries around it
CacheUniqueIdsWitness ==
    /\ IsDefined(lastEvent)
    /\ ValueOf(lastEvent).event.case = "created"
    /\ ValueOf(lastEvent).selected = Some(ValueOf(lastEvent).event.value.id)
    /\ Len(notes) >= 2

\* C7: an id that a delete response or a Deleted event has removed from the
\* cache is in no later state of the cache.
TombstoneKept == \A i \in 1..Len(notes) : notes[i].id \notin removed

\* C8: applyDelta for an id of the collection gives an entity with the title
\* and the body of the delta where it carries them (the empty text too) and
\* the previous ones otherwise, the timestamp and the version of the delta, the
\* same id and createdAtUnixMs; the entities of the other ids are unchanged.
ApplyDeltaMerges ==
    (fnStep = "applied" /\ fnOp = "applyDelta"
        /\ findIndex(fnNotes, fnArg.id) # 0)
    => LET old == fnNotes[findIndex(fnNotes, fnArg.id)]
           k == findIndex(fnResult, fnArg.id)
       IN /\ k # 0
          /\ fnResult[k].title = IF IsDefined(fnArg.title)
                                 THEN ValueOf(fnArg.title) ELSE old.title
          /\ fnResult[k].body = IF IsDefined(fnArg.body)
                                THEN ValueOf(fnArg.body) ELSE old.body
          /\ fnResult[k].updatedAtUnixMs = fnArg.updatedAtUnixMs
          /\ fnResult[k].version = fnArg.version
          /\ fnResult[k].id = old.id
          /\ fnResult[k].createdAtUnixMs = old.createdAtUnixMs
          /\ Len(fnResult) = Len(fnNotes)
          /\ \A i \in 1..Len(fnNotes) :
                fnNotes[i].id # fnArg.id
                => \E j \in 1..Len(fnResult) : fnResult[j] = fnNotes[i]

\* a delta with the empty title and no body has been applied to a collection
\* of two entries that holds its id
ApplyDeltaMergesWitness ==
    /\ fnStep = "applied" /\ fnOp = "applyDelta"
    /\ Len(fnNotes) >= 2
    /\ findIndex(fnNotes, fnArg.id) # 0
    /\ fnArg.title = Some(<<>>)
    /\ ~IsDefined(fnArg.body)
    /\ fnResult[findIndex(fnResult, fnArg.id)].title = <<>>

\* C9: applyDelta for an id that is not in the collection returns the
\* collection as it is, the empty collection included.
ApplyDeltaUnknownId ==
    (fnStep = "applied" /\ fnOp = "applyDelta"
        /\ findIndex(fnNotes, fnArg.id) = 0)
    => fnResult = fnNotes

\* a delta with a title has been applied to a non-empty collection that does
\* not hold its id
ApplyDeltaUnknownIdWitness ==
    /\ fnStep = "applied" /\ fnOp = "applyDelta"
    /\ fnNotes # <<>>
    /\ findIndex(fnNotes, fnArg.id) = 0
    /\ IsDefined(fnArg.title)
    /\ fnResult = fnNotes

\* C10: upsertNote(notes, n) on a collection with unique ids holds n and no
\* other entry of its id, keeps the entries of the other ids, is sorted, and
\* applying it again gives the same collection.
UpsertContract ==
    (fnStep = "repeated" /\ fnOp = "upsertNote")
    => /\ \E k \in 1..Len(fnResult) : fnResult[k] = fnArg
       /\ \A k \in 1..Len(fnResult) :
            fnResult[k].id = fnArg.id => fnResult[k] = fnArg
       /\ HasUniqueIds(fnResult)
       /\ \A i \in 1..Len(fnNotes) :
            fnNotes[i].id # fnArg.id
            => \E j \in 1..Len(fnResult) : fnResult[j] = fnNotes[i]
       /\ \A j \in 1..Len(fnResult) :
            fnResult[j].id # fnArg.id
            => \E i \in 1..Len(fnNotes) : fnNotes[i] = fnResult[j]
       /\ IsSorted(fnResult)
       /\ fnAgain = fnResult

\* a note has replaced the last entry of a collection of two and has moved
\* to the front, and the upsert has been repeated
UpsertContractWitness ==
    /\ fnStep = "repeated" /\ fnOp = "upsertNote"
    /\ Len(fnNotes) = 2
    /\ fnNotes[2].id = fnArg.id
    /\ fnNotes[2] # fnArg
    /\ fnResult[1] = fnArg
    /\ Len(fnResult) = 2

\* C11: removeNote(notes, id) is the collection without the entry of that id,
\* the other entries unchanged and in their order; it is the collection itself
\* when the id is absent, and removing the id again changes nothing.
RemoveContract ==
    (fnStep = "repeated" /\ fnOp = "removeNote")
    => /\ \A k \in 1..Len(fnResult) : fnResult[k].id # fnArg
       /\ IF findIndex(fnNotes, fnArg) = 0
          THEN fnResult = fnNotes
          ELSE fnResult
                = SubSeq(fnNotes, 1, findIndex(fnNotes, fnArg) - 1)
                  \o SubSeq(fnNotes, findIndex(fnNotes, fnArg) + 1,
                            Len(fnNotes))
       /\ fnAgain = fnResult

\* the first of two entries has been removed, and removed again
RemoveContractWitness ==
    /\ fnStep = "repeated" /\ fnOp = "removeNote"
    /\ Len(fnNotes) = 2
    /\ fnNotes[1].id = fnArg
    /\ fnResult = <<fnNotes[2]>>
    /\ fnAgain = fnResult

\* C12: operations among upsertNote, applyDelta and removeNote that target
\* different ids give the same collection in either order of arrival; the
\* entities (id 10, updatedAt 5), (id 20, updatedAt 5), (id 30, updatedAt 3)
\* upserted in any of the six orders give the ids 20, 10, 30.
OrderIndependent ==
    ordPos = Len(ordOps)
    => /\ ordCur = ordRef
       /\ ordArgs = ExampleNotes
          => [k \in 1..Len(ordCur) |-> ordCur[k].id] = <<20, 10, 30>>

\* an upsert and a merge of two cached notes of different ids have arrived in
\* the order opposite to the first order, and both changed the collection
OrderIndependentWitness ==
    /\ ordPos = 2 /\ Len(ordOps) = 2
    /\ ordPerm = <<2, 1>>
    /\ ordOps = <<"upsertNote", "applyDelta">>
    /\ Len(ordNotes) = 2
    /\ findIndex(ordNotes, ordArgs[2].id) # 0
    /\ ordCur # ordNotes
    /\ ordCur # upsertNote(ordNotes, ordArgs[1])
    /\ ordCur # applyDelta(ordNotes, ordArgs[2])
    /\ ordCur[1].id # ordNotes[1].id

\* C13: when the page handles an Updated event for the selected note while
\* the draft has no unsaved changes, draftTitle and draftBody afterwards are
\* the title and body of the merged cached entity of that id, and the draft
\* still has no unsaved changes.
DraftResynced ==
    [][(/\ DeliverEvent
        /\ Head(wsQueue).case = "updated"
        /\ selectedNoteId = Some(Head(wsQueue).value.id)
        /\ ~hasUnsavedChanges)
       => LET merged == FindNote(notes', selectedNoteId) IN
          /\ selectedNoteId' = selectedNoteId
          /\ IsDefined(merged)
          /\ draftTitle' = ValueOf(merged).title
          /\ draftBody' = ValueOf(merged).body
          /\ ~hasUnsavedChanges']_vars

\* an Updated event that carries a body has just been handled for the selected
\* note over a clean draft, and the draft shows that body
DraftResyncedWitness ==
    /\ IsDefined(lastEvent)
    /\ LET e == ValueOf(lastEvent) IN
        /\ e.event.case = "updated"
        /\ ~e.dirty
        /\ e.selected = Some(e.event.value.id)
        /\ selectedNoteId = e.selected
        /\ IsDefined(e.event.value.body)
        /\ e.event.value.version = 2
        /\ draftBody = ValueOf(e.event.value.body)
        /\ IsDefined(selectedNote)
        /\ ValueOf(selectedNote).body = draftBody
        /\ ValueOf(selectedNote).version = 2

\* C14: applying the response of the list request never lowers the cached
\* version of any id.
ListKeepsVersions ==
    [][DeliverList
       => \A i \in 1..Len(notes) : \A j \in 1..Len(notes') :
            notes'[j].id = notes[i].id
            => notes'[j].version >= notes[i].version]_vars

\* C16: encodeUpdateNoteRequest and encodeNoteDelta write nothing for a title
\* or body that is unset and a field of length zero for one set to the empty
\* string; the decoders return unset for the first and the empty string for the
\* second, so the two are not conflated by an encode/decode pass.
OptionalPresence ==
    (cstep = "decoded" /\ ctype \in {"UpdateNoteRequest", "NoteDelta"})
    => LET isDelta == ctype = "NoteDelta"
           Field(n, opt) ==
                IF IsDefined(opt)
                THEN <<8 * n + WIRE_LENGTH_DELIMITED,
                       Len(TextEncode(ValueOf(opt)))>>
                     \o TextEncode(ValueOf(opt))
                ELSE <<>>
           before == IF isDelta THEN writeInt64(1, cmsg.id).value ELSE <<>>
           after == IF isDelta
                    THEN writeInt64(4, cmsg.updated_at_unix_ms).value
                         \o writeInt64(5, cmsg.version).value
                    ELSE <<>>
           first == IF isDelta THEN 2 ELSE 1
       IN /\ wire.value = before \o Field(first, cmsg.title)
                            \o Field(first + 1, cmsg.body) \o after
          /\ decoded.ok
          /\ IsDefined(decoded.value.title) <=> IsDefined(cmsg.title)
          /\ IsDefined(decoded.value.body) <=> IsDefined(cmsg.body)
          /\ cmsg.title = Some(<<>>) => decoded.value.title = Some(<<>>)
          /\ cmsg.body = Some(<<>>) => decoded.value.body = Some(<<>>)

\* an update request with the title set to the empty string and no body has
\* been encoded to the two bytes of an empty field 1 and decoded again
OptionalPresenceWitness ==
    /\ cstep = "decoded" /\ ctype = "UpdateNoteRequest"
    /\ cmsg = [title |-> Some(<<>>), body |-> Undefined]
    /\ wire = Ok(<<10, 0>>)
    /\ decoded.ok
    /\ decoded.value = [title |-> Some(<<>>), body |-> Undefined]

\* C19: encoding a message that holds an integer field which is negative,
\* NaN, infinite, fractional or above 2^53-1 fails and yields no bytes; a
\* message that the encoder accepts is accepted by the decoder.
EncodeIntRange ==
    /\ (cstep = "encoded"
        /\ \E v \in MessageInts(ctype, cmsg) : ~IsSafeInt(v))
       => ~wire.ok /\ DOMAIN wire = {"ok", "error"}
    /\ cstep = "decoded" => decoded.ok

\* the encoder has refused a list whose second note has the version 2^53
EncodeIntRangeWitness ==
    /\ cstep = "encoded" /\ ctype = "ListNotesResponse"
    /\ Len(cmsg.notes) = 2
    /\ IsSafeInt(cmsg.notes[2].id)
    /\ cmsg.notes[2].version = NumBig(<<0, 0, 0, 0, 0, 0, 0, 16>>)
    /\ ~wire.ok

\* C15: for every decoder, a payload of well-formed fields decodes without
\* error, and to the same message as the payload without its fields of unknown
\* numbers (varint or length-delimited), wherever those stand.
UnknownFieldsSkipped ==
    (wstep = "decoded" /\ ~HasFault(wfields) /\ ~HasUnsafeInt(wfields))
    => /\ wresult.ok
       /\ wresult = DecodeBytes(wtype, FieldBytes(KnownFieldsOf(wfields)))

\* a note has been decoded from an unknown field whose bytes read like an id,
\* followed by a title
UnknownFieldsSkippedWitness ==
    /\ wstep = "decoded" /\ wtype = "Note"
    /\ wfields = <<UnknownField(<<122, 2, 8, 5>>), TextField(2, <<97>>)>>
    /\ wresult.ok
    /\ wresult.value.id = Num(0)
    /\ wresult.value.title = <<97>>

\* C17: a decoder returns a complete message or fails: a payload that holds a
\* varint cut off by its end, a length that runs past its end, an unknown field
\* of a wire type other than varint and length-delimited, or a varint that goes
\* on after ten bytes, in the message or in a nested message, fails as a whole.
DecodeAllOrNothing ==
    wstep = "decoded"
    => /\ HasFault(wfields) => ~wresult.ok
       /\ IF wresult.ok
          THEN DOMAIN wresult.value = DOMAIN DecodeBytes(wtype, <<>>).value
          ELSE DOMAIN wresult = {"ok", "error"}

\* a list response whose second note is cut off in its id has been refused
DecodeAllOrNothingWitness ==
    /\ wstep = "decoded" /\ wtype = "ListNotesResponse"
    /\ Len(wfields) = 2
    /\ wfields[1] = MessageField(1, <<IntField(1, <<1>>)>>)
    /\ wfields[2] = MessageField(1, <<FaultField(<<8, 255>>, TRUE)>>)
    /\ ~wresult.ok

\* C18: a payload with an integer field whose varint is above 2^53 - 1 fails
\* to decode; otherwise each integer field of the decoded message is the value
\* of the last varint written for it, 2^53 - 1 included.
DecodeIntRange ==
    (wstep = "decoded" /\ ~HasFault(wfields))
    => IF HasUnsafeInt(wfields) THEN ~wresult.ok
       ELSE /\ wresult.ok
            /\ \A f \in DOMAIN IntFieldsOf(wtype) :
                LET at == {i \in 1..Len(wfields) :
                            wfields[i].kind = "int" /\ wfields[i].field = f}
                    last == CHOOSE i \in at : \A j \in at : j <= i
                IN at # {}
                   => wresult.value[IntFieldsOf(wtype)[f]]
                        = NumBig(wfields[last].mag)

\* a note has been decoded whose id was written as 1 and then as 2^53 - 1
DecodeIntRangeWitness ==
    /\ wstep = "decoded" /\ wtype = "Note"
    /\ wfields = <<IntField(1, <<1>>), IntField(1, MAX_SAFE_INTEGER)>>
    /\ wresult.ok
    /\ wresult.value.id = NumBig(MAX_SAFE_INTEGER)

\* C20: a field absent from the payload decodes to 0 (integer) or to the empty
\* string (text), to unset for the title and body of UpdateNoteRequest and
\* NoteDelta and for the note of a response; a payload without known fields,
\* the empty one included, decodes to the all-default message.
AbsentFieldDefaults ==
    (wstep = "decoded" /\ ~HasFault(wfields) /\ ~HasUnsafeInt(wfields))
    => /\ wresult.ok
       /\ \A f \in DOMAIN IntFieldsOf(wtype) :
            IsAbsent(wfields, "int", f)
            => wresult.value[IntFieldsOf(wtype)[f]] = Num(0)
       /\ \A f \in DOMAIN TextFieldsOf(wtype) :
            IsAbsent(wfields, "text", f)
            => wresult.value[TextFieldsOf(wtype)[f]]
                = IF HasOptionalTexts(wtype) THEN Undefined ELSE <<>>
       /\ (/\ wtype \in {"CreateNoteResponse", "GetNoteResponse",
                         "UpdateNoteResponse"}
           /\ IsAbsent(wfields, "msg", 1))
          => wresult.value.note = Undefined
       /\ (\A i \in 1..Len(wfields) : wfields[i].kind = "skip")
          => wresult.value = DefaultMessage(wtype)

\* a delta has been decoded from a payload that holds its id only
AbsentFieldDefaultsWitness ==
    /\ wstep = "decoded" /\ wtype = "NoteDelta"
    /\ wfields = <<IntField(1, <<1>>)>>
    /\ wresult.ok
    /\ wresult.value = [id |-> Num(1), title |-> Undefined, body |-> Undefined,
                        updated_at_unix_ms |-> Num(0), version |-> Num(0)]

\* C21: decoding an encoded list response gives a sequence of the same length
\* with the same notes in the same order, for the empty list, a single note and
\* notes of repeated ids.
ListOrderKept ==
    (cstep = "decoded" /\ ctype = "ListNotesResponse")
    => /\ decoded.ok
       /\ Len(decoded.value.notes) = Len(cmsg.notes)
       /\ \A k \in 1..Len(cmsg.notes) : decoded.value.notes[k] = cmsg.notes[k]

\* C22: handling an event with no case set leaves the cached collection, the
\* selection and the draft as they are; the empty event encodes to no bytes
\* and no bytes decode to the empty event.
EmptyEventNoOp ==
    [][(wsQueue # <<>> /\ Head(wsQueue).case = "none" /\ DeliverEvent)
       => /\ UNCHANGED <<notes, selectedNoteId, draftTitle, draftBody,
                         localErrorMessage>>
          /\ encodeNoteEvent([event |-> Undefined]) = Ok(<<>>)
          /\ decodeNoteEvent(<<>>) = Ok([event |-> Undefined])]_vars

\* an event with no case set has just been handled over a cached note that is
\* selected and has a dirty draft
EmptyEventNoOpWitness ==
    /\ IsDefined(lastEvent)
    /\ ValueOf(lastEvent).event.case = "none"
    /\ ValueOf(lastEvent).dirty
    /\ notes # <<>>
    /\ IsDefined(selectedNote)
    /\ hasUnsavedChanges

FrameDispatch ==
    [][((SocketMessage(Returns) /\ decoding' = decoding) \/ BlobRead(Returns))
       => IF frame'.type # "string" /\ decodeNoteEvent(frame'.payload).ok
          THEN /\ called'.onEvent = called.onEvent + 1
               /\ called'.onError = called.onError
               /\ handled' = decodeNoteEvent(frame'.payload)
          ELSE /\ called'.onError = called.onError + 1
               /\ called'.onEvent = called.onEvent
               /\ handled' = handled]_vars

\* a Deleted event has been handed over and then a text frame has arrived
FrameDispatchWitness ==
    /\ called.onEvent = 1
    /\ called.onError = 1
    /\ handled = Ok([event |-> Some([kind |-> "deleted",
                                     deleted |-> [id |-> Num(1)]])])
    /\ frame.type = "string"

\* C25: a subscription creates one socket and never another one, whether the
\* socket closes or reports an error; a call of the close function after the
\* first one changes nothing.
ChannelLifecycle ==
    [][/\ sockets' = sockets
       /\ (Unsubscribe /\ closeCalls >= 1)
          => UNCHANGED <<readyState, called, frame, handled, decoding,
                         realtimeState, localErrorMessage>>]_vars

\* the close function has been called twice and the socket has closed
ChannelLifecycleWitness ==
    /\ sockets = 1
    /\ closeCalls = 2
    /\ readyState = "CLOSED"
    /\ called.onClose = 1

\* C26 as stated: in every state, a call of createNote or of saveSelectedNote
\* with a title that is empty after trimming rejects the title, that is, sets
\* the message 'Title is required' and sends nothing.
LocalValidation ==
    /\ \A t \in NewTitles : trim(t) = <<>> => createOutcome(t) = "invalid"
    /\ (IsDefined(selectedNote) /\ trim(draftTitle) = <<>>)
       => saveOutcome = "invalid"

\* what a rejected call does
TitleRejected ==
    /\ localErrorMessage' = Some(TitleRequired)
    /\ UNCHANGED <<pageVars, reqVars, ops>>

\* C26, amended: createNote with a title that is empty after trimming, and
\* saveSelectedNote with such a draft title while no update is pending, send no
\* request, set the message 'Title is required' and leave the cache, the
\* selection and the draft as they are; while an update is pending,
\* saveSelectedNote returns at once and leaves the message as it is as well.
LocalValidationIdle ==
    [][/\ \A t \in NewTitles, b \in NewBodies :
            (trim(t) = <<>> /\ createNote(t, b)) => TitleRejected
       /\ (~isSaving /\ trim(draftTitle) = <<>> /\ SubmitEditor)
          => TitleRejected
       /\ (isSaving /\ SubmitEditor)
          => UNCHANGED <<pageVars, localErrorMessage, reqVars, ops>>]_vars

\* a title has been rejected before the page has sent any mutation, while the
\* draft of the selected note is a blank
LocalValidationIdleWitness ==
    /\ localErrorMessage = Some(TitleRequired)
    /\ IsDefined(selectedNote)
    /\ draftTitle = <<32>>
    /\ ops = 0
    /\ InFlight = 0

\* a step that issues a mutation, settles it as failed, or hands its failure
\* to the page
FailureStep(req) ==
    \/ req.stage = "idle" /\ req'.stage = "sent"
    \/ req.stage = "sent" /\ req'.stage = "failed"
    \/ req.stage = "failed" /\ req'.stage = "idle"

\* C27: a create, update or delete request that fails writes nothing to the
\* cached collection: not when it is issued, not when it is settled as failed
\* and not when the failure is handed to the page.
NoWriteOnFailure ==
    [][(FailureStep(createReq) \/ FailureStep(updateReq)
        \/ FailureStep(deleteReq)) => notes' = notes]_vars

\* a create response without a note has been handed to the page, which holds
\* a note
NoWriteOnFailureWitness ==
    /\ localErrorMessage = Some(EmptyCreateError)
    /\ createReq = Idle
    /\ notes # <<>>

\* C28: after an update request has failed, and as long as the user neither
\* changes the draft nor submits the form, the auto-save timer sends no update
\* request.
NoAutomaticRetry ==
    [][~(/\ failedSave
         /\ updateReq.stage = "idle"
         /\ updateReq'.stage = "sent"
         /\ AutoSave)]_vars

\* C29: a request sent by saveSelectedNote carries the trimmed draft title if
\* and only if it differs from the cached title of the selected note, and the
\* draft body if and only if it differs from the cached body; when neither
\* differs nothing is sent.
UpdateContents ==
    [][(updateReq.stage = "idle" /\ updateReq'.stage = "sent")
       => /\ updateReq'.noteId = ValueOf(selectedNote).id
          /\ updateReq'.title =
                (IF trim(draftTitle) # ValueOf(selectedNote).title
                 THEN Some(trim(draftTitle)) ELSE Undefined)
          /\ updateReq'.body =
                (IF draftBody # ValueOf(selectedNote).body
                 THEN Some(draftBody) ELSE Undefined)
          /\ ~(/\ trim(draftTitle) = ValueOf(selectedNote).title
               /\ draftBody = ValueOf(selectedNote).body)]_vars

\* a request with the body only is pending, while the draft title is the
\* cached title followed by a blank
UpdateContentsWitness ==
    /\ updateReq.stage = "sent"
    /\ ~IsDefined(updateReq.title)
    /\ IsDefined(updateReq.body)
    /\ draftTitle = <<97, 32>>

\* C30: when an Updated event for the selected note changes a field that the
\* draft holds as the cache held it, while the draft is dirty in the other
\* field, the request of the save that follows does not carry that field.
UneditedSurvive ==
    [][(/\ IsDefined(lastEvent)
        /\ updateReq.stage = "idle"
        /\ updateReq'.stage = "sent")
       => LET e == ValueOf(lastEvent) IN
          (/\ e.event.case = "updated"
           /\ e.selected = Some(e.event.value.id)
           /\ e.dirty)
          => /\ ("body" \in e.unedited /\ IsDefined(e.event.value.body))
                => ~IsDefined(updateReq'.body)
             /\ ("title" \in e.unedited /\ IsDefined(e.event.value.title))
                => ~IsDefined(updateReq'.title)]_vars

(***************************************************************************)
(* C34: the handler receives the events in the order in which their frames *)
(* arrived, whatever the payload types of the frames are.  A Blob frame is *)
(* read after the frame callback has returned, so a frame that arrives     *)
(* after it can reach the handler first.                                   *)
(***************************************************************************)
EventDispatchOrder ==
    \A i, j \in 1..Len(order) : i < j => order[i] < order[j]

(***************************************************************************)
(* C35: once the close function has been called, the handler is not called *)
(* again, also for a frame that arrived before the call and whose decoding *)
(* was pending.                                                            *)
(***************************************************************************)
NoDispatchAfterClose ==
    [][closeCalls >= 1 => called'.onEvent = called.onEvent]_vars

(***************************************************************************)
(* C36: realtimeState is 'connecting' until the first lifecycle callback,  *)
(* 'connected' after onOpen, and 'disconnected' only when the socket has   *)
(* closed or failed: a frame that cannot be decoded, reported to onError   *)
(* while the socket stays open, leaves it 'connected'.                     *)
(***************************************************************************)
ConnectionIndicator ==
    /\ (called.onOpen + called.onClose + called.onError = 0
            => realtimeState = "connecting")
    /\ (realtimeState = "disconnected"
            => called.onClose >= 1 \/ socketFailed)

(***************************************************************************)
(* C37: an exception of the handler is passed to onError and does not      *)
(* leave the frame callback, and every later frame that decodes is still   *)
(* handed to the handler.                                                  *)
(***************************************************************************)
HandlerIsolation ==
    [][/\ uncaught' = 0
       /\ (called'.onEvent # called.onEvent /\ threw'
            => called'.onError = called.onError + 1)
       /\ ((order' # order \/ called'.onError # called.onError)
           /\ (arrivals' # arrivals \/ decoding' # decoding)
           /\ decodeSocketFrame(frame').ok
           /\ decodeNoteEvent(frame'.payload).ok
            => called'.onEvent = called.onEvent + 1)]_vars

\* a handler has thrown, and a later frame was handed to it
HandlerIsolationWitness ==
    /\ called.onEvent >= 2
    /\ localErrorMessage = Some(HandlerError)
    /\ ~threw
    /\ decodeSocketFrame(frame).ok
    /\ decodeNoteEvent(frame.payload).ok
    /\ uncaught = 0

(***************************************************************************)
(* C31: a push event that is handled while the draft has no unsaved        *)
(* changes leaves the auto-save effect idle: the condition under which the *)
(* effect sets its timer, and with it sends an update request, does not    *)
(* hold after the event, whatever the event and the cache are.             *)
(***************************************************************************)
PushNoSave ==
    [][(/\ Len(wsQueue') < Len(wsQueue)
        /\ ~hasUnsavedChanges
        /\ ~isSaving)
       => ~autoSaveDue']_vars

(***************************************************************************)
(* C32: at most one update request is in flight: while one is pending, a   *)
(* call of saveSelectedNote, by the auto-save timer or by a submit of the  *)
(* editor form, sends nothing, and an update request is sent only while    *)
(* none is pending.                                                        *)
(***************************************************************************)
OneUpdateInFlight ==
    /\ [](isSaving => saveOutcome = "return" /\ ~autoSaveDue)
    /\ [][isSaving
          => /\ ops' = ops \/ updateReq' = updateReq
             /\ updateReq'.stage # "sent" \/ updateReq.stage = "sent"]_vars

\* the editor form is submitted with a changed draft while an update is
\* pending
OneUpdateInFlightWitness ==
    /\ isSaving
    /\ hasUnsavedChanges
    /\ trim(draftTitle) # <<>>
    /\ updateRequest(draftTitle, draftBody, ValueOf(selectedNote))
        # [title |-> Undefined, body |-> Undefined]

(***************************************************************************)
(* C33: after the selection effect, selectedNoteId is null exactly when    *)
(* the list is empty, and is otherwise the id of an entry; when the        *)
(* selected note leaves the list, the first entry becomes selected and the *)
(* draft is reset to its title and body, to empty strings when the list is *)
(* empty.                                                                  *)
(***************************************************************************)
SelectionInvariant ==
    /\ []((selectedNoteId = Undefined <=> notes = <<>>)
          /\ (IsDefined(selectedNoteId) => IsDefined(selectedNote)))
    /\ [][(/\ IsDefined(selectedNoteId)
           /\ findIndex(notes', ValueOf(selectedNoteId)) = 0)
          => IF notes' = <<>>
             THEN /\ selectedNoteId' = Undefined
                  /\ draftTitle' = <<>>
                  /\ draftBody' = <<>>
             ELSE /\ selectedNoteId' = Some(notes'[1].id)
                  /\ draftTitle' = notes'[1].title
                  /\ draftBody' = notes'[1].body]_vars

\* the Deleted event of the selected note has been handled, and the list
\* still holds a note
SelectionInvariantWitness ==
    /\ IsDefined(lastEvent)
    /\ ValueOf(lastEvent).event.case = "deleted"
    /\ ValueOf(lastEvent).selected = Some(ValueOf(lastEvent).event.value.id)
    /\ notes # <<>>
    /\ selectedNoteId = Some(notes[1].id)
    /\ selectedNoteId # ValueOf(lastEvent).selected

(***************************************************************************)
(* C38: decodeNoteEvent applied to bytes that hold several member fields   *)
(* returns one case, that of the last member field in byte order, and no   *)
(* case when there is none; encodeNoteEvent writes one member field, 1 for *)
(* created, 2 for updated and 3 for deleted, that runs to the end of the   *)
(* bytes, and no bytes for an event without a case.                        *)
(***************************************************************************)
IsMemberField(c) == c.kind = "msg"

MemberKind(field) ==
    CASE field = 1 -> "created" [] field = 2 -> "updated"
      [] field = 3 -> "deleted"

\* the bytes are one length-delimited field of that number
IsOneField(bytes, field) ==
    /\ readTag(bytes, 0).ok
    /\ readTag(bytes, 0).value = [fieldNumber |-> field,
                                  wireType |-> WIRE_LENGTH_DELIMITED]
    /\ readBytes(bytes, readTag(bytes, 0).offset).ok
    /\ readBytes(bytes, readTag(bytes, 0).offset).offset = Len(bytes)

UnionEncoding ==
    (wstep = "decoded" /\ wtype = "NoteEvent" /\ wresult.ok)
    => /\ EventKind(wresult.value) =
            IF SelectSeq(wfields, IsMemberField) = <<>> THEN "none"
            ELSE MemberKind(SelectSeq(wfields, IsMemberField)
                    [Len(SelectSeq(wfields, IsMemberField))].field)
       /\ encodeNoteEvent(wresult.value).ok
       /\ IF EventKind(wresult.value) = "none"
          THEN encodeNoteEvent(wresult.value).value = <<>>
          ELSE \E f \in 1..3 :
                /\ MemberKind(f) = EventKind(wresult.value)
                /\ IsOneField(encodeNoteEvent(wresult.value).value, f)

\* two member fields of different numbers were decoded
UnionEncodingWitness ==
    /\ wstep = "decoded" /\ wtype = "NoteEvent" /\ wresult.ok
    /\ Len(wfields) = 2
    /\ wfields[1].kind = "msg" /\ wfields[2].kind = "msg"
    /\ wfields[1].field # wfields[2].field
    /\ EventKind(wresult.value) = MemberKind(wfields[2].field)

(***************************************************************************)
(* C39: a decoder chooses how to read a field from the field number alone: *)
(* when the tag of every known field carries the other wire type, the      *)
(* bytes after the tags being the same, the decoder returns what it        *)
(* returns for the declared wire types, the same message or the same       *)
(* error, and reports no error for the mismatch.                           *)
(***************************************************************************)
\* the bytes of the fields, the tag of each known field with the other wire
\* type
RECURSIVE RetagBytes(_)
RetagBytes(fields) ==
    IF fields = <<>> THEN <<>>
    ELSE (CASE Head(fields).kind = "int" ->
                    writeTag(Head(fields).field, WIRE_LENGTH_DELIMITED)
                    \o writeVarint(Head(fields).mag)
            [] Head(fields).kind = "text" ->
                    writeTag(Head(fields).field, WIRE_VARINT)
                    \o writeVarint(BigOfNat(Len(TextEncode(Head(fields).text))))
                    \o TextEncode(Head(fields).text)
            [] Head(fields).kind = "msg" ->
                    writeTag(Head(fields).field, WIRE_VARINT)
                    \o writeVarint(BigOfNat(Len(RetagBytes(Head(fields).inner))))
                    \o RetagBytes(Head(fields).inner)
            [] OTHER -> Head(fields).raw)
         \o RetagBytes(Tail(fields))

WireTypeIgnored ==
    wstep = "decoded"
    => DecodeBytes(wtype, RetagBytes(wfields)) = wresult

\* a Note whose integer and text fields carry the other wire type is decoded
WireTypeIgnoredWitness ==
    /\ wstep = "decoded" /\ wtype = "Note" /\ wresult.ok
    /\ Len(wfields) = 2
    /\ wfields[1].kind = "int" /\ wfields[2].kind = "text"
    /\ wfields[2].text # <<>>
    /\ RetagBytes(wfields) # FieldBytes(wfields)
    /\ DecodeBytes(wtype, RetagBytes(wfields)).ok
    /\ DecodeBytes(wtype, RetagBytes(wfields)).value.title = wfields[2].text

====
